---- MODULE Spec2Model ----
(***************************************************************************)
(* Voice-conversation backend: the turn/interrupt manager, the pipeline    *)
(* orchestrator (ASR -> RAG -> LLM -> translation -> TTS), the LLM and TTS *)
(* caches, the guardrail layers and the cost ledger.                       *)
(*                                                                         *)
(* Eight specifications share this module:                                 *)
(*   Spec      process_audio calls running concurrently with an interrupt  *)
(*             (conversation_pipeline.py, interrupt_manager.py and the     *)
(*             stage services' interrupt handling);                        *)
(*   SpecManager  the interrupt manager's API called directly, with        *)
(*             registered tasks and cleanups (interrupt_manager.py);       *)
(*   SpecLLM   LLMService.generate with its cache and guardrails, and the  *)
(*             cache API itself (llm_service.py, cache.py,                 *)
(*             guardrail_service.py);                                      *)
(*   SpecCost  the cost ledger (cost_tracker.py);                          *)
(*   SpecOutage  SpecLLM with a store that may be configured and           *)
(*             unreachable (cache.py, llm_service.py);                     *)
(*   SpecTTS   TTSOrchestrator.synthesize with the voice registry, the     *)
(*             providers and the TTS cache (tts_service.py,                *)
(*             voice_registry.py);                                         *)
(*   SpecGuard the guardrail checks applied to texts                       *)
(*             (guardrail_service.py);                                     *)
(*   SpecRetry the stage clients' request loops (asr_service.py,           *)
(*             llm_service.py, translation_service.py).                    *)
(* Each specification moves its own variables and leaves the others at     *)
(* their initial value.                                                    *)
(***************************************************************************)
EXTENDS Integers, Sequences, FiniteSets, TLC

VARIABLES
    \* ---- Spec: interrupt manager and pipeline
    active_turns,   \* InterruptManager._active_turns: <<session, turn>> -> state object
    objs,           \* the InterruptState objects created so far, by identity
    lock,           \* InterruptManager._lock: its holder, or None
    intr,           \* each interrupt() call's position and arguments
    call,           \* each process_audio call's position, arguments and result
    metrics,        \* SessionMetrics rows, one per session
    clock,          \* datetime.utcnow(), as a counter
    interrupt_log,  \* what interrupt() did, in order: events set, cancels, cleanups
    regs,           \* register_cleanup / register_task calls made so far
    \* ---- SpecLLM: caches and LLM service
    redis_url,      \* settings.redis_url is set
    redis_up,       \* the Redis server answers
    exact_store,    \* Redis keys llm:exact:<hash> -> value and ttl
    semantic_store, \* Redis keys llm:semantic:<normalized query> -> value and ttl
    tts_store,      \* Redis keys of the TTS cache -> value and ttl
    query_index,    \* the sorted set llm:query_index, oldest first
    gen,            \* the last generate() call and what it returned
    cache_op,       \* the last direct cache API call and what it returned
    ops,            \* operations performed so far
    \* ---- SpecCost: cost ledger
    local_entries,  \* CostTracker._local_entries
    recorded,       \* every entry ever passed to _record_entry, in order
    summary,        \* the last get_session_summary() call and its result
    enable_persistence, \* CostTracker.enable_persistence, with a Redis client at hand
    utcnow,         \* what datetime.utcnow() returns now
    cost_redis,     \* Redis keys cost:entry:*, cost:session:* and cost:global
    \* ---- SpecTTS: speech synthesis
    voices,         \* VoiceRegistry._voices, in registration order
    syn,            \* the synthesize() calls made so far and what each returned
    \* ---- SpecGuard: guardrail checks
    chk,            \* the last guardrail check and its result
    \* ---- SpecRetry: request loops
    req,            \* the client call in progress: its loop position and history
    \* ---- SpecProfile: optimization profiles
    prof            \* the services' settings, and what the last turn or retrieve() used

pipeVars == <<active_turns, objs, lock, intr, call, metrics, clock, interrupt_log,
              regs>>
llmVars  == <<redis_url, redis_up, exact_store, semantic_store, tts_store, query_index,
             gen, cache_op, ops>>
costVars == <<local_entries, recorded, summary, enable_persistence, utcnow, cost_redis>>
ttsVars == <<voices, syn>>
guardVars == <<chk>>
retryVars == <<req>>
profVars == <<prof>>
vars == <<pipeVars, llmVars, costVars, ttsVars, guardVars, retryVars, profVars>>

None == "None"

Min(a, b) == IF a <= b THEN a ELSE b
Max(a, b) == IF a >= b THEN a ELSE b

(***************************************************************************)
(* Text.  A string is modelled by its words and by what case and           *)
(* whitespace normalisation can change: whether it has upper-case letters, *)
(* leading/trailing whitespace, or runs of several spaces between words.   *)
(* `filler` counts further words that match no keyword and no pattern, so  *)
(* that the word count can pass the length ceiling.  The vocabulary is     *)
(* chosen so that no keyword begins or ends inside another word: a         *)
(* substring match of a keyword is then a match of whole words.            *)
(***************************************************************************)
Txt(toks) == [toks |-> toks, upper |-> FALSE, lead |-> FALSE, gap |-> FALSE,
              filler |-> 0]

\* str.lower()
Lower(t) == [t EXCEPT !.upper = FALSE]
\* str.strip()
Strip(t) == [t EXCEPT !.lead = FALSE]
\* " ".join(s.split())
Collapse(t) == [t EXCEPT !.lead = FALSE, !.gap = FALSE]
\* len(s.split())
WordCount(t) == Len(t.toks) + t.filler
\* set(s.lower().split()); filler words are numbered apart from the vocabulary
WordSet(t) == {t.toks[i] : i \in 1..Len(t.toks)} \cup {<<"w", k>> : k \in 1..t.filler}

\* keyword in text: the keyword's words in a row, single-spaced, lower case
ContainsPhrase(t, phrase) ==
    /\ ~t.upper
    /\ (Len(phrase) = 1 \/ ~t.gap)
    /\ \E i \in 0..(Len(t.toks) - Len(phrase)) :
          \A j \in 1..Len(phrase) : t.toks[i + j] = phrase[j]

(***************************************************************************)
(* Guardrails (guardrail_service.py)                                       *)
(***************************************************************************)
\* The deny-list entries that can be written in the model's vocabulary, in list order.
BLOCKED_KEYWORDS ==
    << [name |-> "legal advice",     words |-> <<"legal", "advice">>],
       [name |-> "how to make bomb", words |-> <<"how", "to", "make", "bomb">>] >>

\* The patterns, in dictionary order, each with the tokens of the vocabulary it matches.
PII_PATTERNS ==
    << [name |-> "credit_card", words |-> {"4111-1111-1111-1111"}],
       [name |-> "ssn",         words |-> {"123-45-6789"}],
       [name |-> "phone",       words |-> {"555-123-4567"}],
       [name |-> "email",       words |-> {"a@b.co"}] >>

\* pattern.search(text)
PatternSearch(pattern, t) == \E i \in 1..Len(t.toks) : t.toks[i] \in pattern.words

MaxResponseWords == 150

\* The two canned replies, as one-token texts apart from the vocabulary.
INPUT_SAFE_RESPONSE == Txt(<<"#not-able-to-provide-advice">>)
OUTPUT_SAFE_RESPONSE == Txt(<<"#i-apologize">>)
\* The empty string; like None it is falsy.
NoText == Txt(<<>>)

GuardrailViolation(layer, rule_type, severity, what) ==
    [layer |-> layer, rule_type |-> rule_type, severity |-> severity, message |-> what]

RECURSIVE KeywordViolations(_, _, _, _)
\* for keyword in BLOCKED_KEYWORDS: if keyword in text: violations.append(...)
KeywordViolations(keywords, t, layer, rule_type) ==
    IF keywords = <<>> THEN <<>>
    ELSE (IF ContainsPhrase(t, Head(keywords).words)
          THEN <<GuardrailViolation(layer, rule_type, "high", Head(keywords).name)>>
          ELSE <<>>) \o KeywordViolations(Tail(keywords), t, layer, rule_type)

RECURSIVE PiiViolations(_, _)
\* for pii_type, pattern in PII_PATTERNS.items(): if pattern.search(...): append
PiiViolations(patterns, t) ==
    IF patterns = <<>> THEN <<>>
    ELSE (IF PatternSearch(Head(patterns), t)
          THEN <<GuardrailViolation("post_llm", "pii_detected", "high", Head(patterns).name)>>
          ELSE <<>>) \o PiiViolations(Tail(patterns), t)

GuardrailResult(violations, safe_response) ==
    IF violations # <<>>
    THEN [passed |-> FALSE, violations |-> violations, safe_response |-> safe_response]
    ELSE [passed |-> TRUE, violations |-> <<>>, safe_response |-> NoText]

check_input(user_input) ==
    GuardrailResult(
        KeywordViolations(BLOCKED_KEYWORDS, Lower(user_input), "pre_llm", "blocked_keyword"),
        INPUT_SAFE_RESPONSE)

\* an output check without the length ceiling
check_output_any_length(llm_response) ==
    GuardrailResult(
        PiiViolations(PII_PATTERNS, llm_response)
        \o KeywordViolations(BLOCKED_KEYWORDS, Lower(llm_response), "post_llm",
                             "prohibited_content"),
        OUTPUT_SAFE_RESPONSE)

check_output(llm_response) ==
    GuardrailResult(
        PiiViolations(PII_PATTERNS, llm_response)
        \o (IF WordCount(llm_response) > MaxResponseWords
            THEN <<GuardrailViolation("post_llm", "response_too_long", "medium", "max 150")>>
            ELSE <<>>)
        \o KeywordViolations(BLOCKED_KEYWORDS, Lower(llm_response), "post_llm",
                             "prohibited_content"),
        OUTPUT_SAFE_RESPONSE)

(***************************************************************************)
(* Caches (utils/cache.py).  The Redis string keys are three maps, one per *)
(* key prefix; each value is kept with the expiry it was written with.     *)
(***************************************************************************)
Put(m, k, v) == [x \in DOMAIN m \cup {k} |-> IF x = k THEN v ELSE m[x]]
Del(m, k) == [x \in DOMAIN m \ {k} |-> m[x]]
EmptyMap == [x \in {} |-> None]

OptimizationLevels == {"quality", "balanced_quality", "balanced", "balanced_speed", "speed"}

\* CachedLLMResponse.encode / decode: the JSON object and back
EncodeLLM(r) ==
    [response_text |-> r.response_text, query_hash |-> r.query_hash,
     guardrail_safe |-> r.guardrail_safe, token_count |-> r.token_count,
     optimization_level |-> r.optimization_level]
DecodeLLM(payload) ==
    [response_text |-> payload.response_text, query_hash |-> payload.query_hash,
     guardrail_safe |-> payload.guardrail_safe, token_count |-> payload.token_count,
     optimization_level |-> payload.optimization_level]

\* CachedAudio.encode / decode: the JSON object names the audio "audio"
EncodeAudio(a) ==
    [audio |-> a.audio_b64, codec |-> a.codec, sample_rate_hz |-> a.sample_rate_hz]
DecodeAudio(payload) ==
    [audio_b64 |-> payload.audio, codec |-> payload.codec,
     sample_rate_hz |-> payload.sample_rate_hz]

TTS_DEFAULT_TTL == 600
LLM_DEFAULT_TTL == 1800

\* ttl or self.default_ttl_seconds; None and 0 are both falsy, and 0 stands for both
TtlOr(ttl, default) == IF ttl = 0 THEN default ELSE ttl

\* sha256(...).hexdigest()[:16] of "<query.lower().strip()>:<level>"; the digest is
\* taken to be free of collisions, so the hashed content stands for it
HashQuery(query, optimization_level) ==
    [content |-> Lower(Strip(query)), level |-> optimization_level]

NormalizeQuery(query) == Collapse(Lower(Strip(query)))

\* word-overlap similarity as the fraction <<|A & B|, |A | B|>>
CalculateSimilarity(query1, query2) ==
    LET words1 == WordSet(Lower(query1))
        words2 == WordSet(Lower(query2))
    IN  IF words1 = {} \/ words2 = {} THEN <<0, 1>>
        ELSE <<Cardinality(words1 \cap words2), Cardinality(words1 \cup words2)>>

\* comparisons of fractions with positive denominators
FracGt(a, b) == a[1] * b[2] > b[1] * a[2]
FracGe(a, b) == a[1] * b[2] >= b[1] * a[2]

SEMANTIC_LEVELS == {"quality", "balanced_quality"}
SemanticWindow == 100
IndexCap == 1000

\* zrevrange(index, 0, n-1): the n highest-scored members, highest first
ZRevRange(index, n) ==
    LET k == Min(n, Len(index))
    IN  [i \in 1..k |-> index[Len(index) + 1 - i]]

\* zadd(index, {member: now}): a member already present is re-scored, so it moves
ZAdd(index, member) ==
    SelectSeq(index, LAMBDA m : m # member) \o <<member>>

\* zremrangebyrank(index, 0, -(n+1)): only the n highest-scored members stay
ZTrim(index, n) ==
    IF Len(index) > n THEN SubSeq(index, Len(index) - n + 1, Len(index)) ELSE index

\* a loop that stops at the first of the recent queries that reaches the threshold
FirstMatch(recent, normalized_query, threshold, best_match, best_similarity) ==
    LET hits == SelectSeq(recent, LAMBDA m :
                    FracGe(CalculateSimilarity(normalized_query, m), threshold))
    IN  IF hits = <<>> THEN <<best_match, best_similarity>>
        ELSE <<<<hits[1]>>, CalculateSimilarity(normalized_query, hits[1])>>

RECURSIVE BestMatch(_, _, _, _, _)
\* the loop of get_semantic over recent_queries: <<best_match, best_similarity>>
BestMatch(recent, normalized_query, threshold, best_match, best_similarity) ==
    IF recent = <<>> THEN <<best_match, best_similarity>>
    ELSE LET cached_query == Head(recent)
             similarity == CalculateSimilarity(normalized_query, cached_query)
         IN  IF FracGt(similarity, best_similarity) /\ FracGe(similarity, threshold)
             THEN BestMatch(Tail(recent), normalized_query, threshold, <<cached_query>>,
                            similarity)
             ELSE BestMatch(Tail(recent), normalized_query, threshold, best_match,
                            best_similarity)

\* LLMCache.get_exact; a miss is <<>>, a hit is <<entry>>
get_exact(configured, exact, query, optimization_level) ==
    IF ~configured THEN <<>>
    ELSE LET query_hash == HashQuery(query, optimization_level)
         IN  IF query_hash \notin DOMAIN exact THEN <<>>
             ELSE <<DecodeLLM(exact[query_hash].value)>>

\* a get_semantic without the level guard
get_semantic_any_level(configured, index, semantic, query, optimization_level, threshold) ==
    IF ~configured THEN <<>>
    ELSE LET normalized_query == NormalizeQuery(query)
             recent_queries == ZRevRange(index, SemanticWindow)
             best == BestMatch(recent_queries, normalized_query, threshold, <<>>, <<0, 1>>)[1]
         IN  IF best # <<>> /\ best[1].toks # <<>> /\ best[1] \in DOMAIN semantic
             THEN <<DecodeLLM(semantic[best[1]].value)>>
             ELSE <<>>

\* LLMCache.get_semantic; a miss is <<>>, a hit is <<entry>>
get_semantic(configured, index, semantic, query, optimization_level, threshold) ==
    IF optimization_level \notin SEMANTIC_LEVELS THEN <<>>
    ELSE IF ~configured THEN <<>>
    ELSE LET normalized_query == NormalizeQuery(query)
             recent_queries == ZRevRange(index, SemanticWindow)
             best == BestMatch(recent_queries, normalized_query, threshold, <<>>, <<0, 1>>)[1]
         IN  IF best # <<>> /\ best[1].toks # <<>> /\ best[1] \in DOMAIN semantic
             THEN <<DecodeLLM(semantic[best[1]].value)>>
             ELSE <<>>

\* TTSCache.get; a miss is <<>>, a hit is <<audio>>
tts_get(configured, tts, key) ==
    IF ~configured THEN <<>>
    ELSE IF key \notin DOMAIN tts THEN <<>>
    ELSE <<DecodeAudio(tts[key].value)>>

\* TTSCache.set
tts_set(configured, tts, key, value, ttl) ==
    IF ~configured THEN tts
    ELSE Put(tts, key, [value |-> EncodeAudio(value), ex |-> TtlOr(ttl, TTS_DEFAULT_TTL)])

\* a set() that files the entry under the default level
set_exact_default_level(configured, exact, query, response, ttl) ==
    IF ~configured THEN exact
    ELSE Put(exact, HashQuery(query, "balanced"),
             [value |-> EncodeLLM(response), ex |-> TtlOr(ttl, LLM_DEFAULT_TTL)])

\* LLMCache.set, step 1: the exact key
set_exact(configured, exact, query, response, ttl) ==
    IF ~configured THEN exact
    ELSE Put(exact, HashQuery(query, response.optimization_level),
             [value |-> EncodeLLM(response), ex |-> TtlOr(ttl, LLM_DEFAULT_TTL)])

\* LLMCache.set, step 2: the semantic key, for the semantic levels only
set_semantic(configured, semantic, query, response, ttl) ==
    IF ~configured \/ response.optimization_level \notin SEMANTIC_LEVELS THEN semantic
    ELSE Put(semantic, NormalizeQuery(query),
             [value |-> EncodeLLM(response), ex |-> TtlOr(ttl, LLM_DEFAULT_TTL)])

\* LLMCache.set, steps 3 and 4: the query index and its trim
set_index(configured, index, query, response) ==
    IF ~configured \/ response.optimization_level \notin SEMANTIC_LEVELS THEN index
    ELSE ZTrim(ZAdd(index, NormalizeQuery(query)), IndexCap)

(***************************************************************************)
(* LLM service (llm_service.py)                                            *)
(***************************************************************************)
\* LLMService._get_cache_ttl
GetCacheTtl(optimization_level) ==
    CASE optimization_level = "quality" -> 3600
      [] optimization_level = "balanced_quality" -> 2400
      [] optimization_level = "balanced" -> 1800
      [] optimization_level = "balanced_speed" -> 1200
      [] optimization_level = "speed" -> 600
      [] OTHER -> 1800

SEMANTIC_THRESHOLD == <<7, 10>>

LLMResponse(text, safe, post_checked, source) ==
    [text |-> text, safe |-> safe, post_checked |-> post_checked, source |-> source]

\* _generate_internal up to the model call: the response returned without calling
\* the model, as <<response>>, or <<>> when the model has to be called
BeforeModel(configured, exact, index, semantic, transcript, opt_level) ==
    LET cached == get_exact(configured, exact, transcript, opt_level)
        similar == get_semantic(configured, index, semantic, transcript, opt_level,
                                SEMANTIC_THRESHOLD)
        input_check == check_input(transcript)
    IN  IF cached # <<>>
        THEN <<LLMResponse(cached[1].response_text, cached[1].guardrail_safe, TRUE, "exact")>>
        ELSE IF similar # <<>>
        THEN <<LLMResponse(similar[1].response_text, similar[1].guardrail_safe, TRUE,
                           "semantic")>>
        ELSE IF ~input_check.passed
        THEN <<LLMResponse(IF input_check.safe_response # NoText
                           THEN input_check.safe_response ELSE NoText,
                           FALSE, FALSE, "input_block")>>
        ELSE <<>>

\* an _generate_internal that returns the model's text without the output check
AfterModelUnchecked(text) == LLMResponse(text, TRUE, TRUE, "model")

\* _generate_internal after the model returned `text`: the response returned
AfterModel(text) ==
    LET output_check == check_output(text)
    IN  IF ~output_check.passed
        THEN LLMResponse(output_check.safe_response, FALSE, TRUE, "output_block")
        ELSE LLMResponse(text, TRUE, TRUE, "model")

\* the entry _generate_internal writes to the cache after a model response that passed
CachedResponseFor(transcript, text, opt_level) ==
    [response_text |-> text, query_hash |-> HashQuery(transcript, opt_level),
     guardrail_safe |-> TRUE, token_count |-> 30, optimization_level |-> opt_level]

(***************************************************************************)
(* SpecLLM: one client calling the cache API and generate(), one call at a *)
(* time, while keys expire.                                                *)
(***************************************************************************)
MaxOps == 2

Q_hello     == Txt(<<"hello">>)
Q_Hello     == [Txt(<<"hello">>) EXCEPT !.upper = TRUE, !.lead = TRUE]
Q_how_a     == Txt(<<"hello", "how", "to", "make", "a", "bomb">>)
Q_how       == Txt(<<"hello", "how", "to", "make", "bomb">>)
Queries     == {Q_hello, Q_Hello, Q_how_a, Q_how}

T_hi        == Txt(<<"hi", "there">>)
T_card      == Txt(<<"card", "4111-1111-1111-1111">>)
ModelOutputs == {T_hi, T_card}
ProviderAnswers == {[ok |-> TRUE, text |-> t] : t \in ModelOutputs}
                   \cup {[ok |-> FALSE, text |-> NoText]}

WriteLevels == {"quality", "balanced_quality", "speed"}
Thresholds  == {<<7, 10>>, <<1, 1>>}
Ttls        == {0, 60}

TtsKeys == {[text |-> "namaste", language_code |-> lang, voice_id |-> "anushka",
             codec |-> "wav", sample_rate |-> 22050] : lang \in {"hi-IN", "en-IN"}}
Audios  == {[audio_b64 |-> "QUJD", codec |-> "wav", sample_rate_hz |-> 22050],
            [audio_b64 |-> "REVG", codec |-> "mp3", sample_rate_hz |-> 16000]}

NoGen == [query |-> NoText, level |-> None, text |-> NoText, safe |-> TRUE,
          post_checked |-> FALSE, source |-> "none", model_called |-> FALSE,
          cost_tracked |-> FALSE, raised |-> FALSE, steps |-> <<>>]
NoCacheOp == [op |-> "none", query |-> NoText, level |-> None, threshold |-> <<0, 1>>,
              entry |-> <<>>, key |-> <<>>, result |-> <<>>, raised |-> FALSE]

\* A command sent to a configured store whose server does not answer raises the
\* client library's ConnectionError; the cache methods catch CacheNotConfiguredError only.
StoreFails(configured, up) == configured /\ ~up

llmIdle ==
    /\ redis_url = TRUE /\ redis_up = TRUE
    /\ exact_store = EmptyMap /\ semantic_store = EmptyMap
    /\ tts_store = EmptyMap /\ query_index = <<>> /\ gen = NoGen
    /\ cache_op = NoCacheOp /\ ops = 0

\* await llm_cache.set(query, response, ttl)
LLMSetCall(query, response, ttl) ==
    /\ ops < MaxOps
    /\ ops' = ops + 1
    /\ IF StoreFails(redis_url, redis_up)
       THEN UNCHANGED <<exact_store, semantic_store, query_index>>
       ELSE /\ exact_store' = set_exact(redis_url, exact_store, query, response, ttl)
            /\ semantic_store' = set_semantic(redis_url, semantic_store, query, response, ttl)
            /\ query_index' = set_index(redis_url, query_index, query, response)
    /\ cache_op' = [NoCacheOp EXCEPT !.op = "llm_set", !.query = query,
                       !.level = response.optimization_level, !.entry = <<response>>,
                       !.raised = StoreFails(redis_url, redis_up)]
    /\ gen' = NoGen
    /\ UNCHANGED <<redis_url, redis_up, tts_store>>

\* await llm_cache.get_exact(query, level)
GetExactCall(query, level) ==
    /\ ops < MaxOps
    /\ ops' = ops + 1
    /\ cache_op' = [NoCacheOp EXCEPT !.op = "get_exact", !.query = query, !.level = level,
                       !.result = IF StoreFails(redis_url, redis_up) THEN <<>>
                                  ELSE get_exact(redis_url, exact_store, query, level),
                       !.raised = StoreFails(redis_url, redis_up)]
    /\ gen' = NoGen
    /\ UNCHANGED <<redis_url, redis_up, exact_store, semantic_store, tts_store, query_index>>

\* await llm_cache.get_semantic(query, level, threshold)
GetSemanticCall(query, level, threshold) ==
    /\ ops < MaxOps
    /\ ops' = ops + 1
    /\ cache_op' = [NoCacheOp EXCEPT !.op = "get_semantic", !.query = query,
                       !.level = level, !.threshold = threshold,
                       !.result = IF StoreFails(redis_url, redis_up) THEN <<>>
                                  ELSE get_semantic(redis_url, query_index, semantic_store,
                                                    query, level, threshold),
                       !.raised = level \in SEMANTIC_LEVELS
                                  /\ StoreFails(redis_url, redis_up)]
    /\ gen' = NoGen
    /\ UNCHANGED <<redis_url, redis_up, exact_store, semantic_store, tts_store, query_index>>

\* await tts_cache.set(key, audio, ttl)
TTSSetCall(key, audio, ttl) ==
    /\ ops < MaxOps
    /\ ops' = ops + 1
    /\ tts_store' = IF StoreFails(redis_url, redis_up) THEN tts_store
                    ELSE tts_set(redis_url, tts_store, key, audio, ttl)
    /\ cache_op' = [NoCacheOp EXCEPT !.op = "tts_set", !.key = <<key>>, !.entry = <<audio>>,
                       !.raised = StoreFails(redis_url, redis_up)]
    /\ gen' = NoGen
    /\ UNCHANGED <<redis_url, redis_up, exact_store, semantic_store, query_index>>

\* await tts_cache.get(key)
TTSGetCall(key) ==
    /\ ops < MaxOps
    /\ ops' = ops + 1
    /\ cache_op' = [NoCacheOp EXCEPT !.op = "tts_get", !.key = <<key>>,
                       !.result = IF StoreFails(redis_url, redis_up) THEN <<>>
                                  ELSE tts_get(redis_url, tts_store, key),
                       !.raised = StoreFails(redis_url, redis_up)]
    /\ gen' = NoGen
    /\ UNCHANGED <<redis_url, redis_up, exact_store, semantic_store, tts_store, query_index>>

\* await llm_cache.invalidate(query, level): the exact key of the query under the
\* level, the semantic key of the query and its index member are deleted
InvalidateCall(query, level) ==
    /\ ops < MaxOps
    /\ ops' = ops + 1
    /\ IF redis_url /\ ~StoreFails(redis_url, redis_up)
       THEN /\ exact_store' = Del(exact_store, HashQuery(query, level))
            /\ semantic_store' = Del(semantic_store, NormalizeQuery(query))
            /\ query_index' = SelectSeq(query_index, LAMBDA m : m # NormalizeQuery(query))
       ELSE UNCHANGED <<exact_store, semantic_store, query_index>>
    /\ cache_op' = [NoCacheOp EXCEPT !.op = "invalidate", !.query = query, !.level = level,
                       !.raised = StoreFails(redis_url, redis_up)]
    /\ gen' = NoGen
    /\ UNCHANGED <<redis_url, redis_up, tts_store>>

\* a key's time to live runs out; the query index has no expiry
Expire ==
    /\ ops < MaxOps
    /\ ops' = ops + 1
    /\ \/ \E k \in DOMAIN exact_store :
            /\ exact_store' = Del(exact_store, k)
            /\ UNCHANGED <<semantic_store, tts_store>>
       \/ \E k \in DOMAIN semantic_store :
            /\ semantic_store' = Del(semantic_store, k)
            /\ UNCHANGED <<exact_store, tts_store>>
       \/ \E k \in DOMAIN tts_store :
            /\ tts_store' = Del(tts_store, k)
            /\ UNCHANGED <<exact_store, semantic_store>>
    /\ cache_op' = [NoCacheOp EXCEPT !.op = "expire"]
    /\ gen' = NoGen
    /\ UNCHANGED <<redis_url, redis_up, query_index>>

\* await llm_service.generate(transcript, optimization_level=level); the model
\* provider answers with a text (answer.ok), or its request fails for good
Generate(transcript, level, answer) ==
    LET opt_level == IF level = None THEN "balanced" ELSE level
        early == BeforeModel(redis_url, exact_store, query_index, semantic_store,
                             transcript, opt_level)
        g == [NoGen EXCEPT !.query = transcript, !.level = opt_level]
        \* the awaited lookups of layer 0, in the order they are made
        lookups == IF ~redis_url THEN <<>>
                   ELSE IF get_exact(redis_url, exact_store, transcript, opt_level) # <<>>
                   THEN <<"get_exact">>
                   ELSE <<"get_exact", "get_semantic">>
    IN  /\ ops < MaxOps
        /\ ops' = ops + 1
        /\ cache_op' = NoCacheOp
        /\ IF StoreFails(redis_url, redis_up)
           THEN /\ gen' = [g EXCEPT !.source = "store_error", !.raised = TRUE,
                                    !.steps = <<"get_exact">>]
                /\ UNCHANGED <<exact_store, semantic_store, query_index>>
           ELSE IF early # <<>>
           THEN /\ gen' = [g EXCEPT !.text = early[1].text, !.safe = early[1].safe,
                              !.post_checked = early[1].post_checked,
                              !.source = early[1].source,
                              !.steps = IF early[1].source = "input_block"
                                        THEN Append(lookups, "check_input")
                                        ELSE lookups]
                /\ UNCHANGED <<exact_store, semantic_store, query_index>>
           ELSE IF ~answer.ok
           THEN /\ gen' = [g EXCEPT !.source = "error", !.raised = TRUE,
                              !.model_called = TRUE,
                              !.steps = lookups \o <<"check_input", "model">>]
                /\ UNCHANGED <<exact_store, semantic_store, query_index>>
           ELSE LET r == AfterModel(answer.text)
                    entry == CachedResponseFor(transcript, answer.text, opt_level)
                    ttl == GetCacheTtl(opt_level)
                IN  /\ gen' = [g EXCEPT !.text = r.text, !.safe = r.safe,
                                  !.post_checked = r.post_checked, !.source = r.source,
                                  !.model_called = TRUE,
                                  !.cost_tracked = (r.source = "model"),
                                  !.steps = lookups
                                            \o <<"check_input", "model", "check_output">>
                                            \o (IF r.source = "model" /\ redis_url
                                                THEN <<"set">> ELSE <<>>)]
                    /\ IF r.source = "model"
                       THEN /\ exact_store' = set_exact(redis_url, exact_store,
                                                        transcript, entry, ttl)
                            /\ semantic_store' = set_semantic(redis_url, semantic_store,
                                                              transcript, entry, ttl)
                            /\ query_index' = set_index(redis_url, query_index,
                                                        transcript, entry)
                       ELSE UNCHANGED <<exact_store, semantic_store, query_index>>
        /\ UNCHANGED <<redis_url, redis_up, tts_store>>

(***************************************************************************)
(* Cost ledger (cost_tracker.py).  A Decimal is <<coefficient, exponent>>, *)
(* the number coefficient * 10^exponent; every arithmetic result is        *)
(* rounded half-even to the context precision, as Python's decimal does.   *)
(* The model runs the arithmetic at DecimalPrec digits instead of the 28   *)
(* of Python's default context, and keeps the last LocalEntriesCap entries *)
(* instead of the last 1000.                                               *)
(***************************************************************************)
DecimalPrec == 3
LocalEntriesCap == 3

RECURSIVE Pow10(_)
Pow10(n) == IF n <= 0 THEN 1 ELSE 10 * Pow10(n - 1)

RECURSIVE Digits(_)
\* the number of decimal digits of c (0 has none)
Digits(c) == IF c = 0 THEN 0 ELSE 1 + Digits(c \div 10)

Dec(c, e) == <<c, e>>
DecZero == Dec(0, 0)

\* the context's rounding (ROUND_HALF_EVEN) of c * 10^e to DecimalPrec digits
DecRound(c, e) ==
    IF Digits(c) <= DecimalPrec THEN Dec(c, e)
    ELSE LET k == Digits(c) - DecimalPrec
             q == c \div Pow10(k)
             r == c % Pow10(k)
             half == 5 * Pow10(k - 1)
             up == IF r > half \/ (r = half /\ q % 2 = 1) THEN q + 1 ELSE q
         IN  IF up = Pow10(DecimalPrec) THEN Dec(Pow10(DecimalPrec - 1), e + k + 1)
             ELSE Dec(up, e + k)

\* Decimal.__mul__
DecMul(a, b) == DecRound(a[1] * b[1], a[2] + b[2])

\* Decimal.__add__
DecAdd(a, b) ==
    LET e == Min(a[2], b[2])
    IN  DecRound(a[1] * Pow10(a[2] - e) + b[1] * Pow10(b[2] - e), e)

\* Decimal.__eq__: equality of the numbers, whatever their exponents
DecEq(a, b) ==
    LET e == Min(a[2], b[2])
    IN  a[1] * Pow10(a[2] - e) = b[1] * Pow10(b[2] - e)

\* DEFAULT_PRICING, in USD per unit; an unknown provider is priced 0
AsrPrice(provider) == IF provider = "sarvam" THEN Dec(1, -4) ELSE DecZero
LlmPrice(provider) ==
    CASE provider = "sarvam" -> [input |-> Dec(1, -6), output |-> Dec(2, -6)]
      [] provider = "openai" -> [input |-> Dec(1, -5), output |-> Dec(3, -5)]
      [] OTHER -> [input |-> DecZero, output |-> DecZero]
TranslationPrice(provider) == IF provider = "sarvam" THEN Dec(1, -6) ELSE DecZero
TtsPrice(provider) ==
    CASE provider = "sarvam" -> Dec(15, -6)
      [] provider = "elevenlabs" -> Dec(3, -5)
      [] OTHER -> DecZero

CostEntry(service, provider, units, cost, session_id, turn_id) ==
    [service |-> service, provider |-> provider, units |-> units, cost_usd |-> cost,
     session_id |-> session_id, turn_id |-> turn_id]

\* track_asr: Decimal(audio_seconds) is the exact value of the float, given here
\* as the Decimal `audio_seconds`; the units are whole milliseconds
AsrEntry(provider, audio_seconds, session_id, turn_id) ==
    CostEntry("asr", provider,
              (audio_seconds[1] * Pow10(audio_seconds[2] + 7)) \div 10000,
              DecMul(audio_seconds, AsrPrice(provider)), session_id, turn_id)

\* track_llm
LlmEntry(provider, input_tokens, output_tokens, session_id, turn_id) ==
    CostEntry("llm", provider, input_tokens + output_tokens,
              DecAdd(DecMul(Dec(input_tokens, 0), LlmPrice(provider).input),
                     DecMul(Dec(output_tokens, 0), LlmPrice(provider).output)),
              session_id, turn_id)

\* track_translation
TranslationEntry(provider, characters, session_id, turn_id) ==
    CostEntry("translation", provider, characters,
              DecMul(Dec(characters, 0), TranslationPrice(provider)), session_id, turn_id)

\* track_tts
TtsEntry(provider, characters, session_id, turn_id) ==
    CostEntry("tts", provider, characters,
              DecMul(Dec(characters, 0), TtsPrice(provider)), session_id, turn_id)

\* a _record_entry that keeps the first LocalEntriesCap entries instead of the last
RecordEntryKeepOldest(entries, entry) ==
    LET appended == Append(entries, entry)
    IN  IF Len(appended) > LocalEntriesCap THEN SubSeq(appended, 1, LocalEntriesCap)
        ELSE appended

\* _record_entry on the in-process buffer: append, then keep the last LocalEntriesCap
RecordEntry(entries, entry) ==
    LET appended == Append(entries, entry)
    IN  IF Len(appended) > LocalEntriesCap
        THEN SubSeq(appended, Len(appended) - LocalEntriesCap + 1, Len(appended))
        ELSE appended

\* _get_session_entries, from the in-process buffer
SessionEntries(entries, session_id) ==
    SelectSeq(entries, LAMBDA e : e.session_id = session_id)

RECURSIVE SumCost(_)
\* sum(e.cost_usd for e in entries): 0 + e1 + e2 + ..., left to right
SumCost(entries) ==
    IF entries = <<>> THEN DecZero
    ELSE DecAdd(SumCost(SubSeq(entries, 1, Len(entries) - 1)),
                entries[Len(entries)].cost_usd)

RECURSIVE KeysInOrder(_, _)
\* the keys of the dict built by the breakdown loop, in insertion order
KeysInOrder(entries, field) ==
    IF entries = <<>> THEN <<>>
    ELSE LET rest == KeysInOrder(SubSeq(entries, 1, Len(entries) - 1), field)
             k == entries[Len(entries)][field]
         IN  IF \E i \in 1..Len(rest) : rest[i] = k THEN rest ELSE Append(rest, k)

\* by_service / by_provider: <<key, Decimal>> pairs in insertion order
Breakdown(entries, field) ==
    LET keys == KeysInOrder(entries, field)
    IN  [i \in 1..Len(keys) |->
            <<keys[i], SumCost(SelectSeq(entries, LAMBDA e : e[field] = keys[i]))>>]

\* get_session_summary
CostSummary(entries) ==
    IF entries = <<>>
    THEN [total_cost_usd |-> DecZero, entries_count |-> 0,
          breakdown_by_service |-> <<>>, breakdown_by_provider |-> <<>>]
    ELSE [total_cost_usd |-> SumCost(entries), entries_count |-> Len(entries),
          breakdown_by_service |-> Breakdown(entries, "service"),
          breakdown_by_provider |-> Breakdown(entries, "provider")]

RECURSIVE SumValues(_)
\* sum(breakdown.values())
SumValues(pairs) ==
    IF pairs = <<>> THEN DecZero
    ELSE DecAdd(SumValues(SubSeq(pairs, 1, Len(pairs) - 1)), pairs[Len(pairs)][2])

\* CostEntry.to_dict as the hash of Redis keeps it: every field value as its text.
\* str(Decimal) writes the coefficient digits and the exponent as they are.
to_dict(entry, timestamp) ==
    [service |-> entry.service, provider |-> entry.provider,
     units |-> ToString(entry.units),
     cost_usd |-> [coefficient |-> entry.cost_usd[1], exponent |-> entry.cost_usd[2]],
     timestamp |-> timestamp, session_id |-> entry.session_id, turn_id |-> entry.turn_id]

\* CostEntry.from_dict of a decoded hash: Decimal(...) parses cost_usd, units stays
\* the str the hash holds
from_dict(data) ==
    CostEntry(data.service, data.provider, data.units,
              Dec(data.cost_usd.coefficient, data.cost_usd.exponent),
              data.session_id, data.turn_id)

RECURSIVE ZRange(_)
\* zrange(key, 0, -1): the members of a sorted set (member -> score), lowest score first
ZRange(zset) ==
    IF DOMAIN zset = {} THEN <<>>
    ELSE LET m == CHOOSE a \in DOMAIN zset : \A b \in DOMAIN zset : zset[a] <= zset[b]
         IN  <<m>> \o ZRange(Del(zset, m))

NoCostRedis == [hashes |-> EmptyMap, sessions |-> EmptyMap, global |-> EmptyMap]

\* _persist_entry: hset of the entry under cost:entry:<session>:<turn>:<timestamp>,
\* zadd of that key to the session index and to the global index
persist_entry(redis, entry, timestamp) ==
    LET entry_key == <<entry.session_id, entry.turn_id, timestamp>>
        session_index == IF entry.session_id \in DOMAIN redis.sessions
                         THEN redis.sessions[entry.session_id] ELSE EmptyMap
    IN  [hashes |-> Put(redis.hashes, entry_key, to_dict(entry, timestamp)),
         sessions |-> IF entry.session_id # None /\ entry.session_id # ""
                      THEN Put(redis.sessions, entry.session_id,
                               Put(session_index, entry_key, timestamp))
                      ELSE redis.sessions,
         global |-> Put(redis.global, entry_key, timestamp)]

\* _get_session_entries, from Redis: the hashes the session index names, in its order
PersistedEntries(redis, session_id) ==
    LET entry_keys == IF session_id \in DOMAIN redis.sessions
                      THEN ZRange(redis.sessions[session_id]) ELSE <<>>
        found == SelectSeq(entry_keys, LAMBDA k : k \in DOMAIN redis.hashes)
    IN  [i \in 1..Len(found) |-> from_dict(redis.hashes[found[i]])]

\* get_session_summary over entries read back from Redis.  Their units are str, so
\* sum(e.units for e in entries) adds the int 0 and a str: a TypeError, as soon as
\* there is one entry.
PersistedSummary(entries) ==
    IF entries = <<>> THEN [raised |-> None, result |-> CostSummary(<<>>)]
    ELSE [raised |-> "TypeError", result |-> CostSummary(<<>>)]

(***************************************************************************)
(* SpecCost: track_* calls for two sessions and summary queries, with no   *)
(* durable store configured.                                               *)
(***************************************************************************)
MaxTracks == 4

CostSessions == {"s1", "s2"}
\* audio lengths in seconds, each the exact value of a binary float: 1.5 and 39/128
AudioSeconds == {Dec(15, -1), Dec(3046875, -7)}
TtsProviders == {"sarvam", "elevenlabs"}

NoSummary == [session_id |-> None, result |-> CostSummary(<<>>), raised |-> None]

costIdle ==
    /\ local_entries = <<>> /\ recorded = <<>> /\ summary = NoSummary
    /\ enable_persistence = FALSE /\ utcnow = 0 /\ cost_redis = NoCostRedis

Track(entry) ==
    /\ Len(recorded) < MaxTracks
    /\ local_entries' = RecordEntry(local_entries, entry)
    /\ recorded' = Append(recorded, entry)
    /\ cost_redis' = IF enable_persistence THEN persist_entry(cost_redis, entry, utcnow)
                     ELSE cost_redis
    /\ summary' = NoSummary
    /\ UNCHANGED <<enable_persistence, utcnow>>

TrackAsr == \E s \in CostSessions, a \in AudioSeconds : Track(AsrEntry("sarvam", a, s, "t1"))
TrackLlm == \E s \in CostSessions : Track(LlmEntry("sarvam", 10, 20, s, "t1"))
TrackTranslation == \E s \in CostSessions : Track(TranslationEntry("sarvam", 9, s, "t1"))
TrackTts == \E s \in CostSessions, p \in TtsProviders : Track(TtsEntry(p, 7, s, "t1"))

GetSessionSummary ==
    /\ summary = NoSummary
    /\ \E s \in CostSessions :
          summary' =
              IF enable_persistence
              THEN LET r == PersistedSummary(PersistedEntries(cost_redis, s))
                   IN  [session_id |-> s, result |-> r.result, raised |-> r.raised]
              ELSE [session_id |-> s, raised |-> None,
                    result |-> CostSummary(SessionEntries(local_entries, s))]
    /\ UNCHANGED <<local_entries, recorded, enable_persistence, utcnow, cost_redis>>

(***************************************************************************)
(* Interrupt manager (interrupt_manager.py).  _active_turns, a dict of     *)
(* dicts, is one map keyed <<session, turn>>: a session's inner dict is    *)
(* deleted as soon as it is empty, so a session is present exactly when    *)
(* one of its keys is.  The InterruptState objects live in `objs`; the map *)
(* holds their identities, and 0 stands for "no state".                    *)
(***************************************************************************)
\* bool(x) of an Optional[str]
Truthy(x) == x # None /\ x # ""

NoEvent == [session_id |-> None, turn_id |-> None, reason |-> None, timestamp |-> -1,
            stage |-> None]
InterruptEvent(session_id, turn_id, reason, timestamp, stage) ==
    [session_id |-> session_id, turn_id |-> turn_id, reason |-> reason,
     timestamp |-> timestamp, stage |-> stage]

\* InterruptState().  `registered` and `late` are not fields of the dataclass, they
\* are kept for the properties to refer to: `registered` is every handle register_task
\* was given for this state; `late` is the positions of cleanup_callbacks appended
\* while the state was marked interrupted, each with "loop" when an interrupt() was
\* in its cleanup loop over this state then, and "returned" otherwise.
InterruptState ==
    [interrupted |-> FALSE, event |-> NoEvent, task |-> None, cleanup_callbacks |-> <<>>,
     registered |-> {}, late |-> {}]

\* f"{session_id}_{datetime.utcnow().timestamp()}"
GenTurnId(session_id, now) == session_id \o "_" \o ToString(now)

\* start_turn: the turn id it returns, and the map and the objects it leaves
start_turn(turns, heap, session_id, turn_id, now) ==
    LET tid == IF turn_id = None THEN GenTurnId(session_id, now) ELSE turn_id
    IN  [turn_id |-> tid,
         turns |-> Put(turns, <<session_id, tid>>, Len(heap) + 1),
         heap |-> Append(heap, InterruptState)]

\* a lookup that answers an unknown turn id with another active turn of the session
get_state_of_session(turns, session_id, turn_id) ==
    IF <<session_id, turn_id>> \in DOMAIN turns THEN turns[<<session_id, turn_id>>]
    ELSE IF \E k \in DOMAIN turns : k[1] = session_id
    THEN turns[CHOOSE k \in DOMAIN turns : k[1] = session_id]
    ELSE 0

\* _get_state
get_state(turns, session_id, turn_id) ==
    IF <<session_id, turn_id>> \in DOMAIN turns THEN turns[<<session_id, turn_id>>] ELSE 0

is_interrupted(turns, heap, session_id, turn_id) ==
    LET state == get_state(turns, session_id, turn_id)
    IN  state # 0 /\ heap[state].interrupted

finish_turn(turns, session_id, turn_id) == Del(turns, <<session_id, turn_id>>)

\* an interrupt() that does not look at the flag
NeverInterrupted(heap, state) == FALSE

\* if state.interrupted: return
AlreadyInterrupted(heap, state) == heap[state].interrupted

\* asyncio.iscoroutinefunction(cleanup_fn)
IsCoroutineFunction(cleanup_fn) == cleanup_fn = "async_cleanup"

\* a cleanup loop that ends after the callback at position idx
FirstCleanupOnly(callbacks, idx) == IF idx > Len(callbacks) THEN <<>> ELSE <<idx>>

\* the callback raises an Exception when it is called
CleanupRaises(cleanup_fn) == cleanup_fn = "failing_cleanup"

\* a cleanup loop without the try/except around the call
CleanupErrorPropagates(cleanup_fn) == FALSE

\* except Exception as e: self.logger.error(...)
CleanupErrorCaught(cleanup_fn) == TRUE

\* the exception of the callback leaves the loop and interrupt()
CleanupEscapes(cleanup_fn) == CleanupRaises(cleanup_fn) /\ ~CleanupErrorCaught(cleanup_fn)

RECURSIVE SyncCleanups(_, _)
\* the cleanup loop from position idx up to its next await: the callbacks it runs,
\* the last of them the coroutine function it then awaits, if there is one
SyncCleanups(callbacks, idx) ==
    IF idx > Len(callbacks) THEN <<>>
    ELSE IF IsCoroutineFunction(callbacks[idx]) THEN <<idx>>
    ELSE IF CleanupEscapes(callbacks[idx]) THEN <<idx>>
    ELSE <<idx>> \o SyncCleanups(callbacks, idx + 1)

(***************************************************************************)
(* Pipeline (conversation_pipeline.py) with the stage services' interrupt  *)
(* handling (asr_service.py, llm_service.py, translation_service.py,       *)
(* tts_service.py), as the pipeline builds them by default: every service  *)
(* shares the pipeline's interrupt manager, and no Redis URL is set, so    *)
(* the services have no cache.  A call rests at its awaits; the code       *)
(* between two awaits runs without interleaving.                           *)
(***************************************************************************)
max_retries == 3

\* The wall clock is read as a counter: a reading `now` is the last reading or the
\* next value, up to MaxClock.
MaxClock == 1

NoTranslated == [text |-> NoText, language |-> None]
\* the translation provider's answer for `text`
Translated(text, target_language) == [text |-> text, language |-> target_language]

\* SynthesizeResponse; the stage returning None is AudioNone
AudioNone == [audio_of |-> NoTranslated, provider |-> None, voice_id |-> None]
SynthesizeResponse(translated) ==
    [audio_of |-> translated, provider |-> "sarvam", voice_id |-> "anushka"]

\* generate() returning None
LLMNone == LLMResponse(NoText, TRUE, FALSE, "None")
LLMUnset == LLMResponse(NoText, TRUE, FALSE, "unset")

NoTurn == [transcript |-> NoText, llm_response |-> NoText, translated_text |-> NoTranslated,
           audio_response |-> AudioNone]
ConversationTurn(transcript, llm_response, translated_text, audio_response) ==
    [transcript |-> transcript, llm_response |-> llm_response,
     translated_text |-> translated_text, audio_response |-> audio_response]

NoCall ==
    [pc |-> "idle", session_id |-> None, turn_arg |-> None, turn_id |-> None,
     tracked |-> FALSE, obj |-> 0, dup |-> FALSE, attempt |-> 0, hit |-> FALSE,
     blocked |-> "no",
     transcript |-> NoText, llm |-> LLMUnset, translated |-> NoTranslated,
     audio |-> AudioNone, model_called |-> FALSE, outcome |-> "none", error |-> None,
     counted |-> None, guardrail_counted |-> FALSE, finish_calls |-> 0,
     result |-> NoTurn]

Raise(r, error) == [r EXCEPT !.pc = "raise", !.error = error]
Return(r) == [r EXCEPT !.pc = "return"]

\* asr_service.transcribe up to its first await.  Interrupted, check_or_raise raises
\* InterruptedError inside the `async with`; __aexit__ returns True for an interrupted
\* turn, which swallows it, and the code after the block reads `data`, never bound.
EnterAsr(r, interrupted) ==
    IF r.tracked /\ interrupted THEN Raise(r, "UnboundLocalError")
    ELSE [r EXCEPT !.pc = "asr_request", !.attempt = 1]

EnterTranslation(r) == [r EXCEPT !.pc = "translation_request"]

\* a generate() whose input check raises instead of answering with the safe text
EnterLlmRaising(r, interrupted) ==
    IF r.tracked /\ interrupted THEN Raise([r EXCEPT !.llm = LLMNone], "AttributeError")
    ELSE IF ~check_input(r.transcript).passed
    THEN Raise([r EXCEPT !.blocked = "input_block"], "GuardrailViolation")
    ELSE [r EXCEPT !.pc = "llm_request", !.attempt = 1, !.model_called = TRUE]

\* llm_service.generate up to its first await.  Interrupted, the swallowed
\* InterruptedError makes generate() fall off its end and return None, and the
\* pipeline's llm.guardrail_flags raises AttributeError.
EnterLlm(r, interrupted) ==
    IF r.tracked /\ interrupted THEN Raise([r EXCEPT !.llm = LLMNone], "AttributeError")
    ELSE LET early == BeforeModel(FALSE, EmptyMap, <<>>, EmptyMap, r.transcript, "balanced")
         IN  IF early # <<>>
             THEN EnterTranslation([r EXCEPT !.llm = early[1], !.blocked = early[1].source])
             ELSE [r EXCEPT !.pc = "llm_request", !.attempt = 1, !.model_called = TRUE]

\* generate() after the model answered `text`
AfterLlm(r, interrupted, text) ==
    IF r.tracked /\ interrupted THEN Raise([r EXCEPT !.llm = LLMNone], "AttributeError")
    ELSE LET llm == AfterModel(text)
         IN  EnterTranslation([r EXCEPT !.llm = llm,
                                        !.blocked = IF llm.safe THEN "no" ELSE llm.source])

\* tts_orchestrator.synthesize up to its first await; interrupted, it returns None
EnterTts(r, interrupted) ==
    IF r.tracked /\ interrupted THEN Return([r EXCEPT !.audio = AudioNone])
    ELSE [r EXCEPT !.pc = "tts_request"]

\* synthesize() after the provider answered or failed.  Interrupted, the check after
\* convert() raises InterruptedError, `except Exception` re-raises it or the provider's
\* error, and __aexit__ swallows either: synthesize() returns None.
AfterTts(r, interrupted, ok) ==
    IF r.tracked /\ interrupted THEN Return([r EXCEPT !.audio = AudioNone])
    ELSE IF ok THEN Return([r EXCEPT !.audio = SynthesizeResponse(r.translated)])
    ELSE Raise(r, "HTTPError")

NoMetrics ==
    [total_turns |-> 0, successful_turns |-> 0, failed_turns |-> 0,
     interrupted_turns |-> 0, guardrail_violations |-> 0, guardrail_blocks |-> 0]

\* the metrics row had the `except Exception` clause left total_turns alone
CountTurnFailedUntotalled(m, kind, safe) ==
    [m EXCEPT !.total_turns = IF kind = "failed" THEN @ ELSE @ + 1,
              !.successful_turns = IF kind = "successful" THEN @ + 1 ELSE @,
              !.failed_turns = IF kind = "failed" THEN @ + 1 ELSE @,
              !.interrupted_turns = IF kind = "interrupted" THEN @ + 1 ELSE @,
              !.guardrail_violations = IF kind = "successful" /\ ~safe THEN @ + 1 ELSE @,
              !.guardrail_blocks = IF kind = "successful" /\ ~safe THEN @ + 1 ELSE @]

\* the metrics row after a turn that ended as `kind`
CountTurn(m, kind, safe) ==
    [m EXCEPT !.total_turns = @ + 1,
              !.successful_turns = IF kind = "successful" THEN @ + 1 ELSE @,
              !.failed_turns = IF kind = "failed" THEN @ + 1 ELSE @,
              !.interrupted_turns = IF kind = "interrupted" THEN @ + 1 ELSE @,
              !.guardrail_violations = IF kind = "successful" /\ ~safe THEN @ + 1 ELSE @,
              !.guardrail_blocks = IF kind = "successful" /\ ~safe THEN @ + 1 ELSE @]

\* process_audio from where call c stands as `r` to its next await or to its end:
\* the success path's metrics and return, the two except clauses, and finally
Settle(c, r, turns) ==
    IF r.pc \notin {"raise", "return"}
    THEN /\ call' = [call EXCEPT ![c] = r]
         /\ active_turns' = turns
         /\ UNCHANGED metrics
    ELSE LET kind == IF r.pc = "return" THEN "successful"
                     ELSE IF r.error = "InterruptedError" THEN "interrupted"
                     ELSE "failed"
             counts == Truthy(r.session_id)
             finishes == Truthy(r.session_id) /\ Truthy(r.turn_id)
         IN  /\ metrics' = IF counts
                           THEN [metrics EXCEPT ![r.session_id] = CountTurn(@, kind, r.llm.safe)]
                           ELSE metrics
             /\ active_turns' = IF finishes THEN finish_turn(turns, r.session_id, r.turn_id)
                                ELSE turns
             /\ call' = [call EXCEPT ![c] =
                    [NoCall EXCEPT
                              !.pc = "done", !.session_id = r.session_id,
                              !.turn_arg = r.turn_arg, !.turn_id = r.turn_id,
                              !.tracked = r.tracked, !.obj = r.obj, !.dup = r.dup,
                              !.hit = r.hit, !.blocked = r.blocked,
                              !.model_called = r.model_called, !.error = r.error,
                              !.outcome = IF r.pc = "return" THEN "returned" ELSE "raised",
                              !.counted = IF counts THEN kind ELSE None,
                              !.guardrail_counted = counts /\ kind = "successful" /\ ~r.llm.safe,
                              !.finish_calls = IF finishes THEN r.finish_calls + 1
                                               ELSE r.finish_calls,
                              !.result = IF r.pc = "return"
                                         THEN ConversationTurn(r.transcript, r.llm.text,
                                                               r.translated, r.audio)
                                         ELSE NoTurn]]

Interrupted(c) ==
    is_interrupted(active_turns, objs, call[c].session_id, call[c].turn_id)

\* await pipeline.process_audio(audio_url, "hi-IN", session_id=..., turn_id=...)
ProcessAudio(c, session_id, turn_id, now) ==
    LET started == Truthy(session_id)
        st == start_turn(active_turns, objs, session_id, turn_id, now)
        tid == IF started THEN st.turn_id ELSE turn_id
        turns == IF started THEN st.turns ELSE active_turns
        heap == IF started THEN st.heap ELSE objs
        r == [NoCall EXCEPT !.session_id = session_id, !.turn_arg = turn_id,
                            !.turn_id = tid,
                            !.tracked = Truthy(session_id) /\ Truthy(tid),
                            !.obj = IF started THEN Len(heap) ELSE 0,
                            !.dup = started /\ <<session_id, tid>> \in DOMAIN active_turns]
    IN  /\ call[c].pc = "idle"
        /\ IF started /\ turn_id = None THEN now \in clock..Min(clock + 1, MaxClock)
           ELSE now = clock
        /\ clock' = now
        /\ objs' = heap
        /\ Settle(c, EnterAsr(r, is_interrupted(turns, heap, session_id, tid)), turns)
        /\ UNCHANGED <<lock, intr, interrupt_log, regs>>

\* the speech-to-text request of call c is answered
AsrResponse(c, answer) ==
    LET r == call[c]
    IN  /\ r.pc = "asr_request"
        /\ Settle(c,
                  IF answer.status = "ok"
                  THEN EnterLlm([r EXCEPT !.transcript = answer.text], Interrupted(c))
                  ELSE IF answer.status = "4xx" \/ r.attempt = max_retries
                  THEN Raise(r, IF r.tracked /\ Interrupted(c) THEN "UnboundLocalError"
                                ELSE "HTTPError")
                  ELSE [r EXCEPT !.pc = "asr_sleep"],
                  active_turns)
        /\ UNCHANGED <<objs, lock, intr, clock, interrupt_log, regs>>

\* asyncio.sleep(delay) of the ASR retry loop returns: the next attempt
AsrRetry(c) ==
    LET r == call[c]
    IN  /\ r.pc = "asr_sleep"
        /\ Settle(c,
                  IF r.tracked /\ Interrupted(c) THEN Raise(r, "UnboundLocalError")
                  ELSE [r EXCEPT !.pc = "asr_request", !.attempt = @ + 1],
                  active_turns)
        /\ UNCHANGED <<objs, lock, intr, clock, interrupt_log, regs>>

\* the chat-completion request of call c is answered
LlmResponse(c, answer) ==
    LET r == call[c]
    IN  /\ r.pc = "llm_request"
        /\ Settle(c,
                  IF answer.status = "ok" THEN AfterLlm(r, Interrupted(c), answer.text)
                  ELSE IF answer.status = "4xx" \/ r.attempt = max_retries
                  THEN (IF r.tracked /\ Interrupted(c)
                        THEN Raise([r EXCEPT !.llm = LLMNone], "AttributeError")
                        ELSE Raise(r, "HTTPError"))
                  ELSE [r EXCEPT !.pc = "llm_sleep"],
                  active_turns)
        /\ UNCHANGED <<objs, lock, intr, clock, interrupt_log, regs>>

\* asyncio.sleep(delay) of the LLM retry loop returns: the next attempt
LlmRetry(c) ==
    LET r == call[c]
    IN  /\ r.pc = "llm_sleep"
        /\ Settle(c,
                  IF r.tracked /\ Interrupted(c)
                  THEN Raise([r EXCEPT !.llm = LLMNone], "AttributeError")
                  ELSE [r EXCEPT !.pc = "llm_request", !.attempt = @ + 1],
                  active_turns)
        /\ UNCHANGED <<objs, lock, intr, clock, interrupt_log, regs>>

\* translate() ends: with the provider's answer, or with its error after the retries
TranslationResponse(c, ok) ==
    LET r == call[c]
    IN  /\ r.pc = "translation_request"
        /\ Settle(c,
                  IF ok
                  THEN EnterTts([r EXCEPT !.translated = Translated(r.llm.text, "hi-IN")],
                                Interrupted(c))
                  ELSE Raise(r, "HTTPError"),
                  active_turns)
        /\ UNCHANGED <<objs, lock, intr, clock, interrupt_log, regs>>

\* the text-to-speech provider answers or fails
TtsResponse(c, ok) ==
    LET r == call[c]
    IN  /\ r.pc = "tts_request"
        /\ Settle(c, AfterTts(r, Interrupted(c), ok), active_turns)
        /\ UNCHANGED <<objs, lock, intr, clock, interrupt_log, regs>>

NoIntr == [pc |-> "idle", session_id |-> None, turn_id |-> None, reason |-> None,
           stage |-> None, obj |-> 0, idx |-> 0, queued |-> FALSE, error |-> None]

\* interrupt() call `a` returned; `state` is the state object it found, and whether
\* it had to queue for the lock is kept
Returned(a, state) == [NoIntr EXCEPT !.pc = "done", !.obj = state, !.queued = a.queued]

LogEntry(obj, kind, what, idx, event) ==
    [obj |-> obj, kind |-> kind, what |-> what, idx |-> idx, event |-> event]

\* the cleanup loop of interrupt() call i on state object `state`, from position idx
\* to its next await or to its end, where the lock is released
RunCleanups(i, a, state, idx, heap, log) ==
    LET callbacks == heap[state].cleanup_callbacks
        ran == SyncCleanups(callbacks, idx)
        awaits == ran # <<>> /\ IsCoroutineFunction(callbacks[ran[Len(ran)]])
        escapes == ran # <<>> /\ CleanupEscapes(callbacks[ran[Len(ran)]])
    IN  /\ interrupt_log' = log \o [k \in 1..Len(ran) |->
                                LogEntry(state, "cleanup", callbacks[ran[k]], ran[k], NoEvent)]
        /\ objs' = heap
        /\ IF awaits
           THEN /\ lock' = i
                /\ intr' = [intr EXCEPT ![i] = [a EXCEPT !.pc = "cleanup", !.obj = state,
                                                         !.idx = ran[Len(ran)]]]
           ELSE /\ lock' = None
                /\ intr' = [intr EXCEPT ![i] =
                               [Returned(a, state) EXCEPT
                                   !.error = IF escapes THEN "Exception" ELSE None]]

\* interrupt() call i from the moment it holds the lock
InterruptBody(i, a, now) ==
    LET state == get_state(active_turns, a.session_id, a.turn_id)
    IN  IF state = 0 \/ AlreadyInterrupted(objs, state)
        THEN /\ intr' = [intr EXCEPT ![i] = Returned(a, state)]
             /\ lock' = None
             /\ UNCHANGED <<objs, interrupt_log, call, clock>>
        ELSE LET event == InterruptEvent(a.session_id, a.turn_id, a.reason, now, a.stage)
                 heap == [objs EXCEPT ![state] = [@ EXCEPT !.interrupted = TRUE,
                                                           !.event = event]]
                 log1 == Append(interrupt_log, LogEntry(state, "event", a.reason, 0, event))
                 log2 == IF heap[state].task # None
                         THEN Append(log1, LogEntry(state, "cancel", heap[state].task, 0,
                                                    NoEvent))
                         ELSE log1
             IN  /\ now \in clock..Min(clock + 1, MaxClock)
                 /\ clock' = now
                 /\ RunCleanups(i, a, state, 1, heap, log2)
                 /\ call' = [c \in DOMAIN call |->
                               IF /\ call[c].pc \notin {"idle", "done"}
                                  /\ call[c].tracked
                                  /\ call[c].session_id = a.session_id
                                  /\ call[c].turn_id = a.turn_id
                               THEN [call[c] EXCEPT !.hit = TRUE]
                               ELSE call[c]]

\* await manager.interrupt(session_id, turn_id, reason, stage): with the lock free it
\* runs at once, otherwise it queues for the lock
Interrupt(i, session_id, turn_id, reason, stage, now) ==
    LET a == [NoIntr EXCEPT !.session_id = session_id, !.turn_id = turn_id,
                            !.reason = reason, !.stage = stage]
    IN  /\ intr[i].pc = "idle"
        /\ IF lock = None THEN InterruptBody(i, a, now)
           ELSE /\ now = clock
                /\ intr' = [intr EXCEPT ![i] = [a EXCEPT !.pc = "waiting", !.queued = TRUE]]
                /\ UNCHANGED <<objs, lock, interrupt_log, call, clock>>
        /\ UNCHANGED <<active_turns, metrics, regs>>

\* a queued interrupt() gets the lock
InterruptAcquire(i, now) ==
    /\ intr[i].pc = "waiting"
    /\ lock = None
    /\ InterruptBody(i, intr[i], now)
    /\ UNCHANGED <<active_turns, metrics, regs>>

\* the cleanup coroutine that interrupt() call i awaits returns
CleanupDone(i) ==
    /\ intr[i].pc = "cleanup"
    /\ RunCleanups(i, intr[i], intr[i].obj, intr[i].idx + 1, objs, interrupt_log)
    /\ UNCHANGED <<active_turns, call, metrics, clock, regs>>

MaxStarts == 2

\* turn_id = manager.start_turn(session_id, turn_id), called directly
StartTurn(session_id, turn_id, now) ==
    LET st == start_turn(active_turns, objs, session_id, turn_id, now)
    IN  /\ Len(objs) < MaxStarts
        /\ IF turn_id = None THEN now \in clock..Min(clock + 1, MaxClock) ELSE now = clock
        /\ clock' = now
        /\ active_turns' = st.turns
        /\ objs' = st.heap
        /\ UNCHANGED <<lock, intr, call, metrics, interrupt_log, regs>>

\* manager.finish_turn(session_id, turn_id), called directly
FinishTurn(session_id, turn_id) ==
    /\ active_turns' = finish_turn(active_turns, session_id, turn_id)
    /\ UNCHANGED <<objs, lock, intr, call, metrics, clock, interrupt_log, regs>>

MaxRegs == 2

\* manager.register_cleanup(session_id, turn_id, callback)
RegisterCleanup(session_id, turn_id, callback) ==
    LET state == get_state(active_turns, session_id, turn_id)
    IN  /\ regs < MaxRegs
        /\ regs' = regs + 1
        /\ objs' = IF state # 0
                   THEN [objs EXCEPT ![state] =
                           [@ EXCEPT !.cleanup_callbacks = Append(@, callback),
                                     !.late = IF ~objs[state].interrupted THEN @
                                              ELSE @ \cup {<<Len(objs[state].cleanup_callbacks) + 1,
                                                             IF \E i \in DOMAIN intr :
                                                                   /\ intr[i].pc = "cleanup"
                                                                   /\ intr[i].obj = state
                                                             THEN "loop" ELSE "returned">>}]]
                   ELSE objs
        /\ UNCHANGED <<active_turns, lock, intr, call, metrics, clock, interrupt_log>>

\* manager.register_task(session_id, turn_id, task)
RegisterTask(session_id, turn_id, task) ==
    LET state == get_state(active_turns, session_id, turn_id)
    IN  /\ regs < MaxRegs
        /\ regs' = regs + 1
        /\ objs' = IF state # 0
                   THEN [objs EXCEPT ![state] = [@ EXCEPT !.task = task,
                                                          !.registered = @ \cup {task}]]
                   ELSE objs
        /\ UNCHANGED <<active_turns, lock, intr, call, metrics, clock, interrupt_log>>

(***************************************************************************)
(* Spec: two process_audio calls, two interrupt() calls and the callers'   *)
(* registrations, interleaved at the awaits.                               *)
(***************************************************************************)
Calls == {"c1", "c2"}
Interrupters == {"i1", "i2"}
Sessions == {"s1"}
TurnArgs == {None, "t1", ""}
\* process_audio's (session_id, turn_id) arguments
CallArgs == {<<s, t>> : s \in Sessions, t \in TurnArgs} \cup {<<None, None>>}
TurnIds == {"t1", ""} \cup {GenTurnId(s, now) : s \in Sessions, now \in 0..MaxClock}
Transcripts == {Q_hello, Q_how}
AsrAnswers == {[status |-> "ok", text |-> t] : t \in Transcripts}
              \cup {[status |-> x, text |-> NoText] : x \in {"5xx", "4xx"}}
LlmAnswers == {[status |-> "ok", text |-> t] : t \in ModelOutputs}
              \cup {[status |-> x, text |-> NoText] : x \in {"5xx", "4xx"}}
\* the first interrupt() call is a barge-in, the second a timeout
InterruptArgs(i) == IF i = "i1" THEN [reason |-> "user_barge_in", stage |-> None]
                    ELSE [reason |-> "timeout", stage |-> "llm"]
Callbacks == {"sync_cleanup", "async_cleanup", "failing_cleanup"}
Tasks == {"task_a", "task_b"}

pipeIdle ==
    /\ active_turns = EmptyMap /\ objs = <<>> /\ lock = None
    /\ intr = [i \in Interrupters |-> NoIntr]
    /\ call = [c \in Calls |-> NoCall]
    /\ metrics = [s \in Sessions |-> NoMetrics]
    /\ clock = 0 /\ interrupt_log = <<>> /\ regs = 0

(***************************************************************************)
(* Speech synthesis (tts_service.py, voice_registry.py).  synthesize() is  *)
(* called as the API routes call it, without a session or a turn, so no    *)
(* interrupt check applies.  A provider's answer is the audio it returns,  *)
(* or a failure: convert() raising, or a response without audio.           *)
(***************************************************************************)
VoiceEntry(provider, voice_id, languages) ==
    [provider |-> provider, voice_id |-> voice_id, languages |-> languages]

\* the module-level registry: the Sarvam voices, then the ElevenLabs voices
VOICE_REGISTRY ==
    LET all == {"hi-IN", "en-IN", "bn-IN", "gu-IN", "ta-IN", "te-IN", "ml-IN", "kn-IN",
                "mr-IN", "pa-IN"}
    IN  << VoiceEntry("sarvam", "anushka", all),
           VoiceEntry("sarvam", "abhilash", all),
           VoiceEntry("sarvam", "manisha", {"hi-IN", "en-IN"}),
           VoiceEntry("sarvam", "vidya", {"ta-IN", "en-IN"}),
           VoiceEntry("sarvam", "arya", {"bn-IN", "en-IN"}),
           VoiceEntry("sarvam", "karun", {"ta-IN", "en-IN"}),
           VoiceEntry("sarvam", "hitesh", {"gu-IN", "en-IN"}),
           VoiceEntry("elevenlabs", "rachel", {"en-IN", "en-US"}),
           VoiceEntry("elevenlabs", "bella", {"en-IN", "en-US"}),
           VoiceEntry("elevenlabs", "adam", {"en-IN", "en-US"}) >>

\* VoiceRegistry.get: <<entry>>, or <<>> for None
RegistryGet(registry, provider, voice_id) ==
    SelectSeq(registry, LAMBDA e : e.provider = provider /\ e.voice_id = voice_id)

\* VoiceRegistry.voices_for_language, in registration order
VoicesForLanguage(registry, provider, language_code) ==
    SelectSeq(registry, LAMBDA e : e.provider = provider /\ language_code \in e.languages)

\* a registry search that finds no fallback voice
NoFallbackVoice(registry, language_code) == <<>>

\* TTSOrchestrator._find_fallback_voice: <<entry>>, or <<>> for None
FindFallbackVoice(registry, language_code) ==
    LET candidates == VoicesForLanguage(registry, "sarvam", language_code)
        default_candidates == VoicesForLanguage(registry, "sarvam", "en-IN")
    IN  IF candidates # <<>> THEN <<candidates[1]>>
        ELSE IF default_candidates # <<>> THEN <<default_candidates[1]>>
        ELSE <<>>

\* TTSOrchestrator._resolve_voice: the entry, its provider and the fallback source,
\* or the ValueError
ResolveVoice(registry, request) ==
    LET entry == RegistryGet(registry, request.provider, request.voice_id)
        fallback_entry == FindFallbackVoice(registry, request.language_code)
    IN  IF entry # <<>> /\ request.language_code \in entry[1].languages
        THEN [ok |-> TRUE, entry |-> entry[1], provider |-> entry[1].provider,
              fallback_source |-> <<None, None>>]
        ELSE IF fallback_entry # <<>>
        THEN [ok |-> TRUE, entry |-> fallback_entry[1],
              provider |-> fallback_entry[1].provider,
              fallback_source |-> <<request.provider, request.voice_id>>]
        ELSE [ok |-> FALSE, entry |-> VoiceEntry(None, None, {}), provider |-> None,
              fallback_source |-> <<None, None>>]

DEFAULT_SAMPLE_RATE == 22050
DEFAULT_AUDIO_CODEC == "wav"

\* TTSOrchestrator._cache_key; 0 stands for no sample rate given
CacheKey(request, resolved_voice_id) ==
    [text |-> request.text, language_code |-> request.language_code,
     voice_id |-> resolved_voice_id,
     codec |-> IF request.audio_codec # None THEN request.audio_codec
               ELSE DEFAULT_AUDIO_CODEC,
     sample_rate |-> IF request.sample_rate_hz # 0 THEN request.sample_rate_hz
                     ELSE DEFAULT_SAMPLE_RATE]

\* TTSOrchestrator._ttl_for_level over the settings' defaults
TtlForLevel(level) ==
    CASE level \in {"quality", "balanced_quality"} -> 1800
      [] level = "balanced" -> 900
      [] level \in {"balanced_speed", "speed"} -> 300
      [] OTHER -> 900

NoSynthesizeRequest ==
    [text |-> "", language_code |-> None, provider |-> None, voice_id |-> None,
     audio_codec |-> None, sample_rate_hz |-> 0, optimization_level |-> None]

NoSynthesis ==
    [request |-> NoSynthesizeRequest, outcome |-> "none", error |-> None, calls |-> <<>>,
     audio_b64 |-> None, provider |-> None, voice_id |-> None, cached |-> FALSE,
     audio_codec |-> None, sample_rate_hz |-> 0,
     fallback_from_provider |-> None, fallback_from_voice_id |-> None, at |-> 0]

\* the SynthesizeResponse and its TTSMetadata
SynthesisResult(request, resolved, provider, voice_id, calls, audio_b64, codec, rate, cached) ==
    [NoSynthesis EXCEPT !.request = request, !.outcome = "returned", !.calls = calls,
                        !.audio_b64 = audio_b64, !.provider = provider,
                        !.voice_id = voice_id, !.cached = cached, !.audio_codec = codec,
                        !.sample_rate_hz = rate,
                        !.fallback_from_provider = resolved.fallback_source[1],
                        !.fallback_from_voice_id = resolved.fallback_source[2]]

SynthesisError(request, error, calls) ==
    [NoSynthesis EXCEPT !.request = request, !.outcome = "raised", !.error = error,
                        !.calls = calls]

\* a synthesize() of an orchestrator built without a cache
SynthesizeUncached(registry, configured, up, store, request, first, second) ==
    LET resolved == ResolveVoice(registry, request)
        codec == IF request.audio_codec # None THEN request.audio_codec
                 ELSE DEFAULT_AUDIO_CODEC
    IN  IF ~resolved.ok
        THEN [result |-> SynthesisError(request, "ValueError", <<>>), store |-> store]
        ELSE IF ~first.ok
        THEN [result |-> SynthesisError(request, "ProviderError",
                                        <<[provider |-> resolved.provider,
                                           voice_id |-> resolved.entry.voice_id]>>),
              store |-> store]
        ELSE [result |-> SynthesisResult(request, resolved, resolved.provider,
                             resolved.entry.voice_id,
                             <<[provider |-> resolved.provider,
                                voice_id |-> resolved.entry.voice_id]>>,
                             first.audio, codec, DEFAULT_SAMPLE_RATE, FALSE),
              store |-> store]

\* TTSOrchestrator._synthesize_internal: the result and the TTS cache's keys after it.
\* `first` is the answer of the resolved voice's provider and `second` the answer of
\* Sarvam to the fallback attempt, each read only if that call is made.
Synthesize(registry, configured, up, store, request, first, second) ==
    LET resolved == ResolveVoice(registry, request)
        voice_entry == resolved.entry
        provider == resolved.provider
        cache_key == CacheKey(request, voice_entry.voice_id)
        cached == tts_get(configured, store, cache_key)
        codec == IF request.audio_codec # None THEN request.audio_codec
                 ELSE DEFAULT_AUDIO_CODEC
        \* sarvam: payload["speech_sample_rate"]; elevenlabs: the payload has no rate
        rate(p) == IF p = "sarvam" /\ request.sample_rate_hz # 0
                   THEN request.sample_rate_hz ELSE DEFAULT_SAMPLE_RATE
        call1 == [provider |-> provider, voice_id |-> voice_entry.voice_id]
        fallback_entry == FindFallbackVoice(registry, request.language_code)
        written(audio_b64, p) ==
            tts_set(configured, store, cache_key,
                    [audio_b64 |-> audio_b64, codec |-> codec, sample_rate_hz |-> rate(p)],
                    TtlForLevel(request.optimization_level))
    IN  IF ~resolved.ok
        THEN [result |-> SynthesisError(request, "ValueError", <<>>), store |-> store]
        ELSE IF StoreFails(configured, up)
        THEN [result |-> SynthesisError(request, "ConnectionError", <<>>), store |-> store]
        ELSE IF cached # <<>>
        THEN [result |-> SynthesisResult(request, resolved, provider, voice_entry.voice_id,
                             <<>>, cached[1].audio_b64, cached[1].codec,
                             cached[1].sample_rate_hz, TRUE),
              store |-> store]
        ELSE IF first.ok
        THEN [result |-> SynthesisResult(request, resolved, provider, voice_entry.voice_id,
                             <<call1>>, first.audio, codec, rate(provider), FALSE),
              store |-> written(first.audio, provider)]
        ELSE IF provider # "sarvam" /\ fallback_entry # <<>>
        THEN LET call2 == [provider |-> "sarvam", voice_id |-> fallback_entry[1].voice_id]
             IN  IF second.ok
                 THEN [result |-> SynthesisResult(request, resolved, "sarvam",
                                      fallback_entry[1].voice_id, <<call1, call2>>,
                                      second.audio, codec, rate("sarvam"), FALSE),
                       store |-> written(second.audio, "sarvam")]
                 ELSE [result |-> SynthesisError(request, "ProviderError",
                                                 <<call1, call2>>),
                       store |-> store]
        ELSE [result |-> SynthesisError(request, "ProviderError", <<call1>>),
              store |-> store]

(***************************************************************************)
(* SpecTTS: one client calling synthesize(), one call at a time, while     *)
(* keys of the TTS cache expire.  The last two calls are kept.             *)
(***************************************************************************)
MaxTtsOps == 3

\* the registry the unit tests build: one voice per provider, both for en-IN only
StubRegistry ==
    << VoiceEntry("sarvam", "anushka", {"en-IN"}),
       VoiceEntry("elevenlabs", "rachel", {"en-IN"}) >>
\* a registry with no Sarvam voice
ElevenLabsRegistry == << VoiceEntry("elevenlabs", "rachel", {"en-IN", "en-US"}) >>
Registries == {VOICE_REGISTRY, StubRegistry, ElevenLabsRegistry}

SynthesizeRequest(text, language_code, provider, voice_id, audio_codec) ==
    [text |-> text, language_code |-> language_code, provider |-> provider,
     voice_id |-> voice_id, audio_codec |-> audio_codec, sample_rate_hz |-> 0,
     optimization_level |-> "balanced"]
Requests ==
    { SynthesizeRequest("Hello", "en-IN", "sarvam", "anushka", None),
      SynthesizeRequest("Hello", "en-IN", "sarvam", "anushka", "mp3"),
      SynthesizeRequest("Hello", "hi-IN", "sarvam", "unknown", None),
      SynthesizeRequest("Hello", "en-IN", "elevenlabs", "rachel", None),
      SynthesizeRequest("Hello", "en-US", "sarvam", "anushka", None),
      SynthesizeRequest("Hello", "fr-FR", "elevenlabs", "rachel", None) }
TtsAnswers == {[ok |-> TRUE, audio |-> a] : a \in {"SGVsbG8=", "RWxldmVu"}}
              \cup {[ok |-> FALSE, audio |-> None]}

ttsIdle ==
    /\ voices = VOICE_REGISTRY
    /\ syn = [prev |-> NoSynthesis, last |-> NoSynthesis]

\* await orchestrator.synthesize(request)
SynthesizeCall(request, first, second) ==
    LET done == Synthesize(voices, redis_url, redis_up, tts_store, request, first, second)
    IN  /\ ops < MaxTtsOps
        /\ ops' = ops + 1
        /\ tts_store' = done.store
        /\ syn' = [prev |-> syn.last, last |-> [done.result EXCEPT !.at = ops + 1]]
        /\ UNCHANGED <<voices, redis_url, redis_up, exact_store, semantic_store,
                       query_index, gen, cache_op>>

\* a key of the TTS cache runs out of its time to live
TtsExpire ==
    /\ ops < MaxTtsOps
    /\ ops' = ops + 1
    /\ \E k \in DOMAIN tts_store : tts_store' = Del(tts_store, k)
    /\ UNCHANGED <<voices, syn, redis_url, redis_up, exact_store, semantic_store,
                   query_index, gen, cache_op>>

(***************************************************************************)
(* SpecGuard: the guardrail checks applied to texts, and generate()'s use  *)
(* of the output check.                                                    *)
(***************************************************************************)
GuardWords ==
    { <<"hello">>, <<"hi", "there">>,
      <<"legal", "advice">>,
      <<"how", "to", "make", "bomb">>,
      <<"how", "to", "make", "a", "bomb">>,
      <<"legal", "advice", "how", "to", "make", "bomb">>,
      <<"card", "4111-1111-1111-1111">>,
      <<"a@b.co", "legal", "advice">> }
\* with capitals or not, single-spaced or not, and padded with further words up to the
\* length ceiling and past it
GuardTexts ==
    { [toks |-> w, upper |-> u, lead |-> FALSE, gap |-> g, filler |-> f] :
        w \in GuardWords, u \in BOOLEAN, g \in BOOLEAN, f \in {0, 148, 149} }

NoCheck == [op |-> "none", text |-> NoText, result |-> GuardrailResult(<<>>, NoText),
            response |-> LLMUnset]

guardIdle == chk = NoCheck

\* guardrail_service.check_input(text)
CheckInputCall(text) ==
    chk' = [NoCheck EXCEPT !.op = "check_input", !.text = text,
                           !.result = check_input(text)]

\* guardrail_service.check_output(text)
CheckOutputCall(text) ==
    chk' = [NoCheck EXCEPT !.op = "check_output", !.text = text,
                           !.result = check_output(text)]

\* generate(), with no cache and an input that passes, when the model answers `text`
GenerateAnswered(text) ==
    chk' = [NoCheck EXCEPT !.op = "generate", !.text = text,
                           !.result = check_output(text), !.response = AfterModel(text)]

(***************************************************************************)
(* SpecRetry: one call of a stage client (transcribe, generate's model     *)
(* request, translate) for a turn of session "s1": its _request_with_retry *)
(* loop and, for ASR and LLM, the InterruptibleOperation around it, while  *)
(* the turn is interrupted or started again.  Delays are in milliseconds.  *)
(***************************************************************************)
InitialDelayMs == 500

Clients == {"asr", "llm", "translation"}
\* the provider's answer: a response with its status code, or a transport error
HttpAnswers == {[kind |-> "response", code |-> c] : c \in {200, 400, 429, 500, 503}}
               \cup {[kind |-> "transport", code |-> 0]}

NoRequest ==
    [client |-> None, turn_id |-> None, retries |-> 0, pc |-> "idle", attempt |-> 0,
     delay |-> 0, sent |-> 0, waits |-> <<>>, answers |-> <<>>, interrupted |-> FALSE,
     hit_in_wait |-> FALSE, sent_at_hit |-> 0, outcome |-> "none", error |-> None]

retryIdle == req = NoRequest

\* the service opens InterruptibleOperation and passes the ids to the loop
OperationTracked(r) == r.client \in {"asr", "llm"} /\ Truthy(r.turn_id)

\* except clauses of the loop: the error is raised again rather than retried
NotRetried(answer, attempt, retries) ==
    \/ attempt = retries
    \/ (answer.kind = "response" /\ answer.code < 500)

\* the service call ends: returning, or raising `error` through __aexit__, which
\* returns True for an interrupted turn and so swallows the exception; transcribe()
\* then reads `data`, never bound, and generate() returns None
EndCall(r, error) ==
    IF error = None
    THEN (IF r.client = "llm" /\ OperationTracked(r) /\ r.interrupted
          THEN [r EXCEPT !.pc = "done", !.outcome = "returned_none"]
          ELSE [r EXCEPT !.pc = "done", !.outcome = "returned"])
    ELSE IF OperationTracked(r) /\ r.interrupted
    THEN (IF r.client = "asr"
          THEN [r EXCEPT !.pc = "done", !.outcome = "raised", !.error = "UnboundLocalError"]
          ELSE [r EXCEPT !.pc = "done", !.outcome = "returned_none"])
    ELSE [r EXCEPT !.pc = "done", !.outcome = "raised", !.error = error]

\* the top of the loop body: the interrupt check, then the request is sent
NextAttempt(r) ==
    IF OperationTracked(r) /\ r.interrupted THEN EndCall(r, "InterruptedError")
    ELSE [r EXCEPT !.pc = "request", !.sent = @ + 1]

\* the client is called for turn (s1, turn_id), started just before
ClientCall(client, turn_id, retries) ==
    /\ req.pc = "idle"
    /\ req' = NextAttempt([NoRequest EXCEPT !.client = client, !.turn_id = turn_id,
                                           !.retries = retries, !.attempt = 1,
                                           !.delay = InitialDelayMs])

\* client.post(...) is answered
RequestAnswered(answer) ==
    LET r == [req EXCEPT !.answers = Append(@, answer)]
    IN  /\ req.pc = "request"
        /\ req' = IF answer.kind = "response" /\ answer.code < 400 THEN EndCall(r, None)
                  ELSE IF NotRetried(answer, r.attempt, r.retries)
                  THEN EndCall(r, IF answer.kind = "response" THEN "HTTPStatusError"
                                  ELSE "HTTPError")
                  ELSE [r EXCEPT !.pc = "sleep", !.waits = Append(@, r.delay)]

\* asyncio.sleep(delay) returns: the delay doubles and the next attempt begins
SleepReturns ==
    /\ req.pc = "sleep"
    /\ req' = NextAttempt([req EXCEPT !.delay = @ * 2, !.attempt = @ + 1])

\* manager.interrupt("s1", turn_id, reason) while the call is in progress
InterruptDuringCall ==
    /\ req.pc \in {"request", "sleep"}
    /\ ~req.interrupted
    /\ req' = [req EXCEPT !.interrupted = TRUE,
                          !.hit_in_wait = @ \/ req.pc = "sleep",
                          !.sent_at_hit = IF req.pc = "sleep" /\ ~req.hit_in_wait
                                          THEN req.sent ELSE @]

\* manager.start_turn("s1", turn_id) again while the call is in progress: the turn's
\* state is replaced by a fresh one
StartTurnAgain ==
    /\ req.pc \in {"request", "sleep"}
    /\ req.interrupted
    /\ req' = [req EXCEPT !.interrupted = FALSE]

(***************************************************************************)
(* Optimization profiles (settings.py) and the settings each stage of a     *)
(* turn takes from the level name it is handed.  Temperatures are in       *)
(* tenths; an Optional[int] is <<>> for None and <<n>> for n.              *)
(***************************************************************************)
OptimizationConfig(level, rag_top_k, llm_temperature, response_max_tokens) ==
    [level |-> level, rag_top_k |-> rag_top_k, llm_temperature |-> llm_temperature,
     response_max_tokens |-> response_max_tokens]

OPTIMIZATION_CONFIGS ==
    [l \in OptimizationLevels |->
        CASE l = "quality" -> OptimizationConfig(l, 10, 3, <<>>)
          [] l = "balanced_quality" -> OptimizationConfig(l, 5, 5, <<>>)
          [] l = "balanced" -> OptimizationConfig(l, 3, 7, <<>>)
          [] l = "balanced_speed" -> OptimizationConfig(l, 2, 8, <<>>)
          [] l = "speed" -> OptimizationConfig(l, 0, 9, <<50>>)]

get_optimization_config(level) ==
    IF level \in DOMAIN OPTIMIZATION_CONFIGS THEN OPTIMIZATION_CONFIGS[level]
    ELSE OPTIMIZATION_CONFIGS["balanced"]

\* RAGService.retrieve: the number of chunks asked for
RetrieveTopK(top_k, optimization_level) ==
    IF top_k # <<>> THEN top_k[1]
    ELSE IF Truthy(optimization_level)
    THEN get_optimization_config(optimization_level).rag_top_k
    ELSE 5

\* LLMService.generate / _generate_internal: the level the cache is used under, the
\* payload's temperature and max_tokens, and the ttl of the cached answer
GenerateSettings(optimization_level, max_output_tokens) ==
    LET opt_level == IF Truthy(optimization_level) THEN optimization_level ELSE "balanced"
        config == get_optimization_config(opt_level)
    IN  [opt_level |-> opt_level, temperature |-> config.llm_temperature,
         max_tokens |-> IF config.response_max_tokens # <<>>
                                /\ config.response_max_tokens[1] # 0
                        THEN config.response_max_tokens[1] ELSE max_output_tokens,
         ttl |-> GetCacheTtl(opt_level)]

\* _build_tts_request and the ttl synthesize() caches the audio with: SynthesizeRequest
\* takes one of the five level names only
BuildTtsRequest(optimization_level) ==
    LET level == IF Truthy(optimization_level) THEN optimization_level ELSE "balanced"
    IN  IF level \notin OptimizationLevels
        THEN [raised |-> "ValidationError", optimization_level |-> None, ttl |-> 0]
        ELSE [raised |-> None, optimization_level |-> level, ttl |-> TtlForLevel(level)]

LevelArgs == OptimizationLevels \cup {None, "", "turbo"}
TopKArgs == {<<>>, <<0>>, <<1>>, <<3>>, <<5>>, <<10>>}
MaxOutputTokens == {600, 300, 50}

NoProf ==
    [max_output_tokens |-> 600, rag_service |-> FALSE, op |-> "none", level |-> None,
     top_k_arg |-> <<>>, rag_top_k |-> <<>>, opt_level |-> None, temperature |-> 0,
     max_tokens |-> 0, llm_ttl |-> 0, tts_raised |-> None, tts_ttl |-> 0]

profIdle == prof = NoProf

\* process_audio(..., optimization_level=level), every provider answering: the
\* settings its stages run with
TurnProfile(level) ==
    LET g == GenerateSettings(level, prof.max_output_tokens)
        t == BuildTtsRequest(level)
    IN  prof' = [prof EXCEPT !.op = "turn", !.level = level, !.top_k_arg = <<>>,
                    !.rag_top_k = IF prof.rag_service THEN <<RetrieveTopK(<<>>, level)>>
                                  ELSE <<>>,
                    !.opt_level = g.opt_level, !.temperature = g.temperature,
                    !.max_tokens = g.max_tokens, !.llm_ttl = g.ttl,
                    !.tts_raised = t.raised, !.tts_ttl = t.ttl]

\* rag_service.retrieve(query, top_k, level), called directly
RetrieveCall(top_k, level) ==
    /\ prof.rag_service
    /\ prof' = [NoProf EXCEPT !.max_output_tokens = prof.max_output_tokens,
                   !.rag_service = TRUE, !.op = "retrieve", !.level = level,
                   !.top_k_arg = top_k, !.rag_top_k = <<RetrieveTopK(top_k, level)>>]

(***************************************************************************)
(* Specifications                                                          *)
(***************************************************************************)
\* the calls are interchangeable, and so are the interrupt() calls: the second
\* of each is made after the first
InOrder(x, first, started) == x = first \/ started

Init == pipeIdle /\ llmIdle /\ costIdle /\ ttsIdle /\ guardIdle /\ retryIdle /\ profIdle

Start ==
    \E c \in Calls, a \in CallArgs, now \in 0..MaxClock :
        /\ InOrder(c, "c1", call["c1"].pc # "idle")
        /\ ProcessAudio(c, a[1], a[2], now)
AsrAnswer == \E c \in Calls, a \in AsrAnswers : AsrResponse(c, a)
AsrNextAttempt == \E c \in Calls : AsrRetry(c)
LlmAnswer == \E c \in Calls, a \in LlmAnswers : LlmResponse(c, a)
LlmNextAttempt == \E c \in Calls : LlmRetry(c)
TranslationAnswer == \E c \in Calls, ok \in BOOLEAN : TranslationResponse(c, ok)
TtsAnswer == \E c \in Calls, ok \in BOOLEAN : TtsResponse(c, ok)
InterruptTurn ==
    \E s \in Sessions, t \in TurnIds, now \in 0..MaxClock :
        Interrupt("i1", s, t, InterruptArgs("i1").reason, InterruptArgs("i1").stage, now)

Next ==
    \/ (Start /\ UNCHANGED <<llmVars, costVars, ttsVars, guardVars, retryVars, profVars>>)
    \/ (AsrAnswer /\ UNCHANGED <<llmVars, costVars, ttsVars, guardVars, retryVars, profVars>>)
    \/ (AsrNextAttempt /\ UNCHANGED <<llmVars, costVars, ttsVars, guardVars, retryVars, profVars>>)
    \/ (LlmAnswer /\ UNCHANGED <<llmVars, costVars, ttsVars, guardVars, retryVars, profVars>>)
    \/ (LlmNextAttempt /\ UNCHANGED <<llmVars, costVars, ttsVars, guardVars, retryVars, profVars>>)
    \/ (TranslationAnswer /\ UNCHANGED <<llmVars, costVars, ttsVars, guardVars, retryVars, profVars>>)
    \/ (TtsAnswer /\ UNCHANGED <<llmVars, costVars, ttsVars, guardVars, retryVars, profVars>>)
    \/ (InterruptTurn /\ UNCHANGED <<llmVars, costVars, ttsVars, guardVars, retryVars, profVars>>)

Spec == Init /\ [][Next]_vars

InterruptCall ==
    \E i \in Interrupters, s \in Sessions, t \in TurnIds, now \in 0..MaxClock :
        /\ InOrder(i, "i1", intr["i1"].pc # "idle")
        /\ Interrupt(i, s, t, InterruptArgs(i).reason, InterruptArgs(i).stage, now)
StartTurnCall ==
    \E s \in Sessions, t \in TurnArgs, now \in 0..MaxClock : StartTurn(s, t, now)
FinishTurnCall == \E s \in Sessions, t \in TurnIds : FinishTurn(s, t)
InterruptLocked == \E i \in Interrupters, now \in 0..MaxClock : InterruptAcquire(i, now)
CleanupReturns == \E i \in Interrupters : CleanupDone(i)
RegisterCleanupCall ==
    \E s \in Sessions, t \in TurnIds, cb \in Callbacks : RegisterCleanup(s, t, cb)
RegisterTaskCall ==
    \E s \in Sessions, t \in TurnIds, task \in Tasks : RegisterTask(s, t, task)

NextManager ==
    \/ (StartTurnCall /\ UNCHANGED <<llmVars, costVars, ttsVars, guardVars, retryVars, profVars>>)
    \/ (FinishTurnCall /\ UNCHANGED <<llmVars, costVars, ttsVars, guardVars, retryVars, profVars>>)
    \/ (InterruptCall /\ UNCHANGED <<llmVars, costVars, ttsVars, guardVars, retryVars, profVars>>)
    \/ (InterruptLocked /\ UNCHANGED <<llmVars, costVars, ttsVars, guardVars, retryVars, profVars>>)
    \/ (CleanupReturns /\ UNCHANGED <<llmVars, costVars, ttsVars, guardVars, retryVars, profVars>>)
    \/ (RegisterCleanupCall /\ UNCHANGED <<llmVars, costVars, ttsVars, guardVars, retryVars, profVars>>)
    \/ (RegisterTaskCall /\ UNCHANGED <<llmVars, costVars, ttsVars, guardVars, retryVars, profVars>>)

SpecManager == Init /\ [][NextManager]_vars

InitLLM ==
    /\ redis_url \in BOOLEAN /\ redis_up = TRUE
    /\ exact_store = EmptyMap /\ semantic_store = EmptyMap
    /\ tts_store = EmptyMap /\ query_index = <<>> /\ gen = NoGen
    /\ cache_op = NoCacheOp /\ ops = 0
    /\ pipeIdle /\ costIdle /\ ttsIdle /\ guardIdle /\ retryIdle /\ profIdle

LLMSet ==
    \E q \in Queries, l \in WriteLevels, safe \in BOOLEAN :
        LLMSetCall(q, [CachedResponseFor(q, T_hi, l) EXCEPT !.guardrail_safe = safe], 0)
GetExact == \E q \in Queries, l \in OptimizationLevels : GetExactCall(q, l)
GetSemantic ==
    \E q \in Queries, l \in OptimizationLevels, th \in Thresholds : GetSemanticCall(q, l, th)
TTSSet == \E k \in TtsKeys, a \in Audios, ttl \in Ttls : TTSSetCall(k, a, ttl)
TTSGet == \E k \in TtsKeys : TTSGetCall(k)
GenerateCall ==
    \E q \in Queries, l \in WriteLevels \cup {None}, a \in ProviderAnswers :
        Generate(q, l, a)
Invalidate == \E q \in Queries, l \in OptimizationLevels : InvalidateCall(q, l)

NextLLM ==
    \/ (LLMSet /\ UNCHANGED <<pipeVars, costVars, ttsVars, guardVars, retryVars, profVars>>)
    \/ (GetExact /\ UNCHANGED <<pipeVars, costVars, ttsVars, guardVars, retryVars, profVars>>)
    \/ (GetSemantic /\ UNCHANGED <<pipeVars, costVars, ttsVars, guardVars, retryVars, profVars>>)
    \/ (TTSSet /\ UNCHANGED <<pipeVars, costVars, ttsVars, guardVars, retryVars, profVars>>)
    \/ (TTSGet /\ UNCHANGED <<pipeVars, costVars, ttsVars, guardVars, retryVars, profVars>>)
    \/ (Expire /\ UNCHANGED <<pipeVars, costVars, ttsVars, guardVars, retryVars, profVars>>)
    \/ (GenerateCall /\ UNCHANGED <<pipeVars, costVars, ttsVars, guardVars, retryVars, profVars>>)
    \/ (Invalidate /\ UNCHANGED <<pipeVars, costVars, ttsVars, guardVars, retryVars, profVars>>)

SpecLLM == InitLLM /\ [][NextLLM]_vars

InitCost == costIdle /\ pipeIdle /\ llmIdle /\ ttsIdle /\ guardIdle /\ retryIdle /\ profIdle

NextCost ==
    \/ (TrackAsr /\ UNCHANGED <<pipeVars, llmVars, ttsVars, guardVars, retryVars, profVars>>)
    \/ (TrackLlm /\ UNCHANGED <<pipeVars, llmVars, ttsVars, guardVars, retryVars, profVars>>)
    \/ (TrackTranslation /\ UNCHANGED <<pipeVars, llmVars, ttsVars, guardVars, retryVars, profVars>>)
    \/ (TrackTts /\ UNCHANGED <<pipeVars, llmVars, ttsVars, guardVars, retryVars, profVars>>)
    \/ (GetSessionSummary /\ UNCHANGED <<pipeVars, llmVars, ttsVars, guardVars, retryVars, profVars>>)

SpecCost == InitCost /\ [][NextCost]_vars

InitOutage ==
    /\ redis_url \in BOOLEAN /\ redis_up \in BOOLEAN
    /\ exact_store = EmptyMap /\ semantic_store = EmptyMap
    /\ tts_store = EmptyMap /\ query_index = <<>> /\ gen = NoGen
    /\ cache_op = NoCacheOp /\ ops = 0
    /\ pipeIdle /\ costIdle /\ ttsIdle /\ guardIdle /\ retryIdle /\ profIdle

SpecOutage == InitOutage /\ [][NextLLM]_vars

InitTTS ==
    /\ voices \in Registries
    /\ syn = [prev |-> NoSynthesis, last |-> NoSynthesis]
    /\ redis_url \in BOOLEAN
    /\ redis_up \in (IF redis_url THEN BOOLEAN ELSE {TRUE})
    /\ exact_store = EmptyMap /\ semantic_store = EmptyMap
    /\ tts_store = EmptyMap /\ query_index = <<>> /\ gen = NoGen
    /\ cache_op = NoCacheOp /\ ops = 0
    /\ pipeIdle /\ costIdle /\ guardIdle /\ retryIdle /\ profIdle

NextTTS ==
    \/ ((\E r \in Requests, first \in TtsAnswers, second \in TtsAnswers :
            SynthesizeCall(r, first, second))
        /\ UNCHANGED <<pipeVars, costVars, guardVars, retryVars, profVars>>)
    \/ (TtsExpire /\ UNCHANGED <<pipeVars, costVars, guardVars, retryVars, profVars>>)

SpecTTS == InitTTS /\ [][NextTTS]_vars

NextGuard ==
    \/ ((\E t \in GuardTexts : CheckInputCall(t))
        /\ UNCHANGED <<pipeVars, llmVars, costVars, ttsVars, retryVars, profVars>>)
    \/ ((\E t \in GuardTexts : CheckOutputCall(t))
        /\ UNCHANGED <<pipeVars, llmVars, costVars, ttsVars, retryVars, profVars>>)
    \/ ((\E t \in GuardTexts : GenerateAnswered(t))
        /\ UNCHANGED <<pipeVars, llmVars, costVars, ttsVars, retryVars, profVars>>)

SpecGuard == Init /\ [][NextGuard]_vars

NextRetry ==
    \/ ((\E c \in Clients, t \in {"t1", ""}, n \in {1, max_retries} : ClientCall(c, t, n))
        /\ UNCHANGED <<pipeVars, llmVars, costVars, ttsVars, guardVars, profVars>>)
    \/ ((\E a \in HttpAnswers : RequestAnswered(a))
        /\ UNCHANGED <<pipeVars, llmVars, costVars, ttsVars, guardVars, profVars>>)
    \/ (SleepReturns /\ UNCHANGED <<pipeVars, llmVars, costVars, ttsVars, guardVars, profVars>>)
    \/ (InterruptDuringCall /\ UNCHANGED <<pipeVars, llmVars, costVars, ttsVars, guardVars, profVars>>)
    \/ (StartTurnAgain /\ UNCHANGED <<pipeVars, llmVars, costVars, ttsVars, guardVars, profVars>>)

SpecRetry == Init /\ [][NextRetry]_vars

\* Spec with every provider request eventually answered and every sleep of a retry
\* loop eventually over: the event loop resumes a call whose await is done
PipeRest == UNCHANGED <<llmVars, costVars, ttsVars, guardVars, retryVars, profVars>>
SpecLive ==
    /\ Init /\ [][Next]_vars
    /\ WF_vars(AsrAnswer /\ PipeRest) /\ WF_vars(AsrNextAttempt /\ PipeRest)
    /\ WF_vars(LlmAnswer /\ PipeRest) /\ WF_vars(LlmNextAttempt /\ PipeRest)
    /\ WF_vars(TranslationAnswer /\ PipeRest) /\ WF_vars(TtsAnswer /\ PipeRest)

(***************************************************************************)
(* SpecGenerate: the text cache as the application uses it, where          *)
(* generate() is the only writer; lookups and invalidations in between     *)
(***************************************************************************)
NextGenerate ==
    \/ (GenerateCall /\ UNCHANGED <<pipeVars, costVars, ttsVars, guardVars, retryVars, profVars>>)
    \/ (GetExact /\ UNCHANGED <<pipeVars, costVars, ttsVars, guardVars, retryVars, profVars>>)
    \/ (GetSemantic /\ UNCHANGED <<pipeVars, costVars, ttsVars, guardVars, retryVars, profVars>>)
    \/ (Invalidate /\ UNCHANGED <<pipeVars, costVars, ttsVars, guardVars, retryVars, profVars>>)

SpecGenerate == InitLLM /\ [][NextGenerate]_vars

(***************************************************************************)
(* SpecProfile: turns and direct retrieve() calls under every level name,  *)
(* for pipelines built with and without a RAG service                      *)
(***************************************************************************)
InitProfile ==
    /\ \E m \in MaxOutputTokens, r \in BOOLEAN :
          prof = [NoProf EXCEPT !.max_output_tokens = m, !.rag_service = r]
    /\ pipeIdle /\ llmIdle /\ costIdle /\ ttsIdle /\ guardIdle /\ retryIdle

Turn == \E l \in LevelArgs : TurnProfile(l)
Retrieve == \E k \in TopKArgs, l \in LevelArgs : RetrieveCall(k, l)

NextProfile ==
    \/ (Turn /\ UNCHANGED <<pipeVars, llmVars, costVars, ttsVars, guardVars, retryVars>>)
    \/ (Retrieve /\ UNCHANGED <<pipeVars, llmVars, costVars, ttsVars, guardVars, retryVars>>)

SpecProfile == InitProfile /\ [][NextProfile]_vars

(***************************************************************************)
(* SpecPersist: SpecCost with the durable store configured, while the      *)
(* clock that stamps the entries moves on                                  *)
(***************************************************************************)
MaxCostClock == 1

InitPersist ==
    /\ local_entries = <<>> /\ recorded = <<>> /\ summary = NoSummary
    /\ enable_persistence = TRUE /\ utcnow = 0 /\ cost_redis = NoCostRedis
    /\ pipeIdle /\ llmIdle /\ ttsIdle /\ guardIdle /\ retryIdle /\ profIdle

\* time passes between two calls
CostTick ==
    /\ utcnow < MaxCostClock
    /\ utcnow' = utcnow + 1
    /\ UNCHANGED <<local_entries, recorded, summary, enable_persistence, cost_redis>>

NextPersist ==
    \/ (TrackAsr /\ UNCHANGED <<pipeVars, llmVars, ttsVars, guardVars, retryVars, profVars>>)
    \/ (TrackLlm /\ UNCHANGED <<pipeVars, llmVars, ttsVars, guardVars, retryVars, profVars>>)
    \/ (TrackTranslation /\ UNCHANGED <<pipeVars, llmVars, ttsVars, guardVars, retryVars, profVars>>)
    \/ (TrackTts /\ UNCHANGED <<pipeVars, llmVars, ttsVars, guardVars, retryVars, profVars>>)
    \/ (GetSessionSummary /\ UNCHANGED <<pipeVars, llmVars, ttsVars, guardVars, retryVars, profVars>>)
    \/ (CostTick /\ UNCHANGED <<pipeVars, llmVars, ttsVars, guardVars, retryVars, profVars>>)

SpecPersist == InitPersist /\ [][NextPersist]_vars

(***************************************************************************)
(* SpecSemantic: lookups and writes of the text cache over every small      *)
(* query index, where the semantic entries of some members have expired    *)
(* (an entry lives for its ttl, the index member stays until it is trimmed) *)
(***************************************************************************)
MaxSemIndex == 3

Q_how_the  == Txt(<<"hello", "how", "to", "make", "the", "bomb">>)
SemQueries == {Q_hello, Q_how_a, Q_how, Q_how_the}

\* the entry a generate() under "quality" leaves under the semantic key of q
SemEntry(q) ==
    [value |-> EncodeLLM(CachedResponseFor(q, T_hi, "quality")),
     ex |-> GetCacheTtl("quality")]

\* the orders in which up to MaxSemIndex distinct queries were indexed
SemOrders ==
    {s \in UNION {[1..n -> SemQueries] : n \in 0..MaxSemIndex} :
        \A i, j \in DOMAIN s : i # j => s[i] # s[j]}

InitSemantic ==
    /\ redis_url = TRUE /\ redis_up = TRUE
    /\ exact_store = EmptyMap /\ tts_store = EmptyMap
    /\ \E s \in SemOrders : \E live \in SUBSET {s[i] : i \in DOMAIN s} :
          /\ query_index = [i \in DOMAIN s |-> NormalizeQuery(s[i])]
          /\ semantic_store = [k \in {NormalizeQuery(q) : q \in live} |->
                                  SemEntry(CHOOSE q \in live : NormalizeQuery(q) = k)]
    /\ gen = NoGen /\ cache_op = NoCacheOp /\ ops = 0
    /\ pipeIdle /\ costIdle /\ ttsIdle /\ guardIdle /\ retryIdle /\ profIdle

SemSet == \E q \in SemQueries : LLMSetCall(q, CachedResponseFor(q, T_hi, "quality"), GetCacheTtl("quality"))
SemGet ==
    \E q \in SemQueries, l \in {"quality", "balanced"}, th \in Thresholds :
        GetSemanticCall(q, l, th)

NextSemantic ==
    \/ (SemSet /\ UNCHANGED <<pipeVars, costVars, ttsVars, guardVars, retryVars, profVars>>)
    \/ (SemGet /\ UNCHANGED <<pipeVars, costVars, ttsVars, guardVars, retryVars, profVars>>)

SpecSemantic == InitSemantic /\ [][NextSemantic]_vars

(***************************************************************************)
(* Claims                                                                  *)
(***************************************************************************)

InFlight(c) == call[c].pc \notin {"idle", "done"}

\* C1: every process_audio call made with a session id runs finish_turn exactly once,
\* whatever its outcome, and once no call is in flight the active-turn map is empty.
C1_FinishOncePerStart ==
    /\ \A c \in Calls :
          (call[c].pc = "done" /\ Truthy(call[c].session_id)) => call[c].finish_calls = 1
    /\ (\A c \in Calls : ~InFlight(c)) => DOMAIN active_turns = {}

\* C2: a call whose turn was interrupted while one of its stages was running or about
\* to start ends by raising InterruptedError, counted as an interrupted turn.
C2_InterruptedOutcome ==
    \A c \in Calls :
        (call[c].pc = "done" /\ call[c].hit) =>
            /\ call[c].outcome = "raised"
            /\ call[c].error = "InterruptedError"
            /\ call[c].counted = "interrupted"

\* C3: each state object has its event set once, its task cancelled at most once and
\* each of its cleanup callbacks run at most once, however many interrupt() calls
\* reach it and however they interleave; its event is the one the first call set.
C3_SecondInterruptChangesNothing ==
    /\ \A j, k \in 1..Len(interrupt_log) :
          (j # k /\ interrupt_log[j].obj = interrupt_log[k].obj
                 /\ interrupt_log[j].kind = interrupt_log[k].kind)
              => interrupt_log[j].idx # interrupt_log[k].idx
    /\ \A o \in 1..Len(objs) :
          objs[o].interrupted =>
              \E j \in 1..Len(interrupt_log) :
                  /\ interrupt_log[j].obj = o
                  /\ interrupt_log[j].kind = "event"
                  /\ interrupt_log[j].event = objs[o].event

\* two interrupt() calls reached the same state object, the second queued behind the
\* first one's awaited cleanup; the object had a task and the cleanup ran
C3_Witness ==
    /\ intr["i1"].pc = "done" /\ intr["i2"].pc = "done"
    /\ intr["i1"].obj # 0 /\ intr["i2"].obj = intr["i1"].obj
    /\ intr["i2"].queued
    /\ objs[intr["i1"].obj].event.reason = "user_barge_in"
    /\ \E j \in 1..Len(interrupt_log) : interrupt_log[j].kind = "cancel"
    /\ \E j \in 1..Len(interrupt_log) : interrupt_log[j].what = "async_cleanup"

\* C4: a start_turn on a pair that is already active fails with DuplicateTurn, and
\* the turn that was active keeps its state object in the map.
C4_DuplicateStartFails ==
    \A c \in Calls :
        /\ call[c].dup => call[c].error = "DuplicateTurn"
        /\ (InFlight(c) /\ Truthy(call[c].session_id)) =>
              get_state(active_turns, call[c].session_id, call[c].turn_id) = call[c].obj

\* C5: every ConversationTurn returned carries a transcript, an LLM response, a
\* translated text and a synthesized-audio response, and a call that raised returned
\* nothing.
C5_NoPartialResult ==
    \A c \in Calls :
        /\ call[c].outcome = "returned" =>
              /\ call[c].result.transcript # NoText
              /\ call[c].result.llm_response # NoText
              /\ call[c].result.translated_text # NoTranslated
              /\ call[c].result.audio_response # AudioNone
        /\ call[c].outcome = "raised" => call[c].result = NoTurn

\* C6: for an input that contains a deny-list phrase, generate() returns the
\* layer-1 safe-fallback text marked unsafe, whatever the cache holds.
C6_DenyListedInputGetsSafeFallback ==
    (gen.source # "none" /\ ~gen.raised /\ ~check_input(gen.query).passed)
        => (gen.text = INPUT_SAFE_RESPONSE /\ ~gen.safe /\ ~gen.model_called)

SafeTextOf(blocked) ==
    IF blocked = "input_block" THEN INPUT_SAFE_RESPONSE ELSE OUTPUT_SAFE_RESPONSE

C8_SummaryAdditive ==
    summary.session_id # None =>
        LET r == summary.result
        IN  /\ DecEq(r.total_cost_usd, SumCost(SessionEntries(recorded, summary.session_id)))
            /\ DecEq(SumValues(r.breakdown_by_service), r.total_cost_usd)
            /\ DecEq(SumValues(r.breakdown_by_provider), r.total_cost_usd)

\* C9: with a configured store, right after set() the exact lookup of the same
\* query under the entry's level returns the stored entry, and right after the TTS
\* cache's set() its get() of the same key returns the stored audio.
C9_CacheRoundTrip ==
    /\ (redis_url /\ cache_op.op = "llm_set") =>
          get_exact(redis_url, exact_store, cache_op.query,
                    cache_op.entry[1].optimization_level) = cache_op.entry
    /\ (redis_url /\ cache_op.op = "tts_set") =>
          tts_get(redis_url, tts_store, cache_op.key[1]) = cache_op.entry

\* a set() of a query with capitals and padding, after the TTS cache was written
C9_Witness ==
    /\ redis_url /\ cache_op.op = "llm_set" /\ cache_op.query = Q_Hello
    /\ ~cache_op.entry[1].guardrail_safe
    /\ DOMAIN tts_store # {}

\* C10: get_semantic returns none for every query and threshold when the level is
\* not quality or balanced_quality.
C10_SemanticOnlyForQualityLevels ==
    (cache_op.op = "get_semantic" /\ cache_op.level \notin {"quality", "balanced_quality"})
        => cache_op.result = <<>>

\* a lookup under speed of a query whose normalized form is cached under quality
C10_Witness ==
    /\ redis_url /\ cache_op.op = "get_semantic" /\ cache_op.level = "speed"
    /\ NormalizeQuery(cache_op.query) \in DOMAIN semantic_store
    /\ semantic_store[NormalizeQuery(cache_op.query)].value.optimization_level = "quality"
    /\ Len(query_index) > 0

\* C11: with the store unconfigured or unreachable, every cache method is a silent
\* miss: no call raises, a read returns none, a write leaves the store as it was, and
\* generate() goes on as it does without a cache: to the input check and the model.
C11_StoreFailureIsSilentMiss ==
    (~redis_url \/ ~redis_up) =>
        /\ cache_op.op # "none" => (~cache_op.raised /\ cache_op.result = <<>>)
        /\ exact_store = EmptyMap /\ semantic_store = EmptyMap
        /\ tts_store = EmptyMap /\ query_index = <<>>
        /\ gen.source # "none" =>
              /\ gen.source \in {"input_block", "model", "output_block", "error"}
              /\ gen.raised => gen.model_called

\* C12: when the requested (provider, voice id) is not registered for the requested
\* language, a synthesis that returns used a voice whose languages contain the
\* requested language and names the requested provider and voice id as its fallback
\* source; when no registered voice supports the language, synthesis fails with the
\* no-voice error.
C12_FallbackVoiceSupportsLanguage ==
    LET r == syn.last
        q == r.request
        entry == RegistryGet(voices, q.provider, q.voice_id)
        registered == entry # <<>> /\ q.language_code \in entry[1].languages
        supported == \E k \in 1..Len(voices) : q.language_code \in voices[k].languages
        used == RegistryGet(voices, r.provider, r.voice_id)
    IN  r.outcome # "none" =>
            /\ (~registered /\ r.outcome = "returned") =>
                  /\ used # <<>> /\ q.language_code \in used[1].languages
                  /\ r.fallback_from_provider = q.provider
                  /\ r.fallback_from_voice_id = q.voice_id
            /\ ~supported => (r.outcome = "raised" /\ r.error = "ValueError")

\* C13 (as stated): when the first provider call of a synthesize() fails, a second
\* call is made, to sarvam, if and only if the failing provider is not sarvam; a
\* failure that is not retried, or a failed second call, is raised to the caller;
\* no synthesize() makes more than two provider calls.
C13_FallbackIffNotSarvam ==
    [][\A q \in Requests : \A a, b \in TtsAnswers :
        LET r == syn'.last
        IN  SynthesizeCall(q, a, b) =>
              /\ Len(r.calls) <= 2
              /\ (r.calls # <<>> /\ ~a.ok) =>
                    /\ Len(r.calls) = 2 <=> r.calls[1].provider # "sarvam"
                    /\ Len(r.calls) = 2 => r.calls[2].provider = "sarvam"
                    /\ (Len(r.calls) = 1 \/ ~b.ok) => r.outcome = "raised"
                    /\ (Len(r.calls) = 2 /\ b.ok) =>
                          (r.outcome = "returned" /\ r.audio_b64 = b.audio)]_vars

\* C13 (amended): the second call is made if and only if the failing provider is not
\* sarvam and the registry holds a Sarvam voice for the request's language or for
\* en-IN; the rest as stated.
C13_FallbackIffNotSarvamAndVoice ==
    [][\A q \in Requests : \A a, b \in TtsAnswers :
        LET r == syn'.last
            sarvam_voice == \/ VoicesForLanguage(voices, "sarvam", q.language_code) # <<>>
                            \/ VoicesForLanguage(voices, "sarvam", "en-IN") # <<>>
        IN  SynthesizeCall(q, a, b) =>
              /\ Len(r.calls) <= 2
              /\ (r.calls # <<>> /\ ~a.ok) =>
                    /\ Len(r.calls) = 2 <=>
                          (r.calls[1].provider # "sarvam" /\ sarvam_voice)
                    /\ Len(r.calls) = 2 =>
                          /\ r.calls[2].provider = "sarvam"
                          /\ r.calls[2].voice_id \in
                                {voices[k].voice_id : k \in 1..Len(voices)}
                    /\ (Len(r.calls) = 1 \/ ~b.ok) =>
                          (r.outcome = "raised" /\ r.error = "ProviderError")
                    /\ (Len(r.calls) = 2 /\ b.ok) =>
                          /\ r.outcome = "returned" /\ r.audio_b64 = b.audio
                          /\ r.provider = "sarvam" /\ ~r.cached]_vars

\* an ElevenLabs call failed and the Sarvam fallback attempt answered
C13_Witness ==
    /\ syn.last.outcome = "returned" /\ Len(syn.last.calls) = 2
    /\ syn.last.calls[1].provider = "elevenlabs"
    /\ syn.last.calls[2].provider = "sarvam" /\ syn.last.provider = "sarvam"

\* C14: with a configured cache, the first synthesize() of a request that returns has
\* cached = false and called a provider; an identical request made immediately after
\* one that returned has cached = true, carries the audio, codec and sample rate of
\* the earlier result, and makes no provider call.
C14_RepeatedRequestIsCached ==
    LET first == syn.prev  second == syn.last
    IN  /\ (redis_url /\ second.at = 1 /\ second.outcome = "returned") =>
              (~second.cached /\ second.calls # <<>>)
        /\ (/\ redis_url /\ first.outcome = "returned"
            /\ second.outcome # "none" /\ second.at = first.at + 1
            /\ second.request = first.request) =>
              /\ second.outcome = "returned" /\ second.cached
              /\ second.audio_b64 = first.audio_b64
              /\ second.audio_codec = first.audio_codec
              /\ second.sample_rate_hz = first.sample_rate_hz
              /\ second.calls = <<>>

\* a request was synthesized by a provider and immediately repeated
C14_Witness ==
    /\ redis_url /\ syn.prev.outcome = "returned" /\ ~syn.prev.cached
    /\ syn.prev.calls # <<>> /\ syn.last.at = syn.prev.at + 1
    /\ syn.last.request = syn.prev.request /\ syn.last.cached

\* C15: an interrupt() that reaches its body for a (session, turn) pair that is not in
\* the active-turn map, never started or already finished, returns at once: the map,
\* every state object (flag, event, task, cleanup callbacks) and the record of events
\* set, tasks cancelled and cleanups run are unchanged, and the lock is free again.
C15_InterruptOfUnknownTurnIsNoOp ==
    [][\A i \in Interrupters : \A now \in 0..MaxClock :
        LET nothing == /\ UNCHANGED <<active_turns, objs, interrupt_log, call>>
                       /\ intr'[i].pc = "done" /\ intr'[i].obj = 0
                       /\ lock' = None
        IN  /\ \A s \in Sessions : \A t \in TurnIds :
                  (/\ lock = None
                   /\ <<s, t>> \notin DOMAIN active_turns
                   /\ Interrupt(i, s, t, InterruptArgs(i).reason, InterruptArgs(i).stage,
                                now))
                      => nothing
            /\ (/\ <<intr[i].session_id, intr[i].turn_id>> \notin DOMAIN active_turns
                /\ InterruptAcquire(i, now))
                  => nothing]_vars

\* an interrupt() of a pair not in the map returned while an active turn held a task
\* and a cleanup callback, and one turn had already finished
C15_Witness ==
    /\ intr["i1"].pc = "done" /\ intr["i1"].obj = 0
    /\ interrupt_log = <<>>
    /\ Len(objs) > Cardinality(DOMAIN active_turns)
    /\ \E k \in DOMAIN active_turns :
          /\ objs[active_turns[k]].task # None
          /\ objs[active_turns[k]].cleanup_callbacks # <<>>
          /\ ~objs[active_turns[k]].interrupted

\* C16: check_input fails, with a non-empty safe_response, every input that contains a
\* deny-list phrase in any letter case, among them "how to make a bomb"; it reports
\* one violation per matching phrase; it passes with no violations exactly when no
\* phrase matches.
C16_DenyListBlocksInput ==
    LET t == chk.text
        matching == {k \in 1..Len(BLOCKED_KEYWORDS) :
                        ContainsPhrase(Lower(t), BLOCKED_KEYWORDS[k].words)}
    IN  chk.op = "check_input" =>
            /\ chk.result.passed <=> matching = {}
            /\ Len(chk.result.violations) = Cardinality(matching)
            /\ chk.result.passed => chk.result.violations = <<>>
            /\ ~chk.result.passed => WordCount(chk.result.safe_response) > 0
            /\ (t.toks = <<"how", "to", "make", "a", "bomb">> /\ ~t.gap) =>
                  ~chk.result.passed

\* C17: check_output fails, with the non-empty apology as safe_response, exactly the
\* texts that match a PII pattern, have more than 150 words, or contain a deny-list
\* phrase; generate() returns a failed model output as the apology marked unsafe, and
\* a passed one unchanged and marked safe.
C17_OutputCheckBlocks ==
    LET t == chk.text
        pii == \E k \in 1..Len(PII_PATTERNS) :
                   \E i \in 1..Len(t.toks) : t.toks[i] \in PII_PATTERNS[k].words
        too_long == Len(t.toks) + t.filler > 150
        denied == \E k \in 1..Len(BLOCKED_KEYWORDS) :
                      ContainsPhrase(Lower(t), BLOCKED_KEYWORDS[k].words)
    IN  chk.op \in {"check_output", "generate"} =>
            /\ ~chk.result.passed <=> (pii \/ too_long \/ denied)
            /\ ~chk.result.passed =>
                  /\ chk.result.safe_response = OUTPUT_SAFE_RESPONSE
                  /\ WordCount(chk.result.safe_response) > 0
            /\ chk.op = "generate" =>
                  /\ chk.response.safe <=> chk.result.passed
                  /\ chk.response.post_checked
                  /\ chk.response.text = IF chk.result.passed THEN t
                                         ELSE chk.result.safe_response

\* generate() returned the apology, marked unsafe, for a model output with a grouped
\* 16-digit card number and nothing else against it
C17_Witness ==
    /\ chk.op = "generate"
    /\ chk.text.toks = <<"card", "4111-1111-1111-1111">> /\ chk.text.filler = 0
    /\ ~chk.response.safe /\ chk.response.text = OUTPUT_SAFE_RESPONSE
    /\ Len(chk.result.violations) = 1
    /\ chk.result.violations[1].rule_type = "pii_detected"

\* C18: registrations accumulate.  The interrupt() that sets a state object's flag
\* cancels, in that step, every task handle registered for the object so far; and when
\* that interrupt() returns, every cleanup callback registered for the object so far
\* has run.
C18_RegistrationsAccumulate ==
    [][/\ \A o \in 1..Len(objs) :
             (~objs[o].interrupted /\ objs'[o].interrupted) =>
                 \A task \in objs[o].registered :
                     \E j \in 1..Len(interrupt_log') :
                         /\ interrupt_log'[j].obj = o
                         /\ interrupt_log'[j].kind = "cancel"
                         /\ interrupt_log'[j].what = task
       /\ \A i \in Interrupters :
             LET o == intr'[i].obj
             IN  (/\ intr[i].pc # "done" /\ intr'[i].pc = "done" /\ o # 0
                  /\ (~objs[o].interrupted \/ intr[i].pc = "cleanup")) =>
                     \A k \in 1..Len(objs'[o].cleanup_callbacks) :
                         \E j \in 1..Len(interrupt_log') :
                             /\ interrupt_log'[j].obj = o
                             /\ interrupt_log'[j].kind = "cleanup"
                             /\ interrupt_log'[j].idx = k
                             /\ interrupt_log'[j].what = objs'[o].cleanup_callbacks[k]]_vars

\* C19: a response with a 4xx status ends the client call: it is the last request of
\* the call, and the call raises its HTTPStatusError; every request but the last was
\* answered with a 5xx status or a transport error.
C19_ClientErrorNotRetried ==
    LET n == Len(req.answers)
        is4xx(a) == a.kind = "response" /\ a.code >= 400 /\ a.code < 500
        retryable(a) == a.kind = "transport" \/ (a.kind = "response" /\ a.code >= 500)
    IN  /\ \A k \in 1..n :
              is4xx(req.answers[k]) =>
                  /\ k = n /\ req.sent = n
                  /\ req.pc = "done"
                  /\ req.outcome = "raised" /\ req.error = "HTTPStatusError"
        /\ \A k \in 1..n : k < req.sent => retryable(req.answers[k])
        /\ (n > 0 /\ is4xx(req.answers[1])) => req.sent = 1

\* C20: a client call sends at most max_retries requests; it waits 500 ms before the
\* second request and twice the last wait before each later one; it never waits after
\* its last permitted request; an ASR or LLM call whose turn is interrupted during a
\* wait sends no request after that.
C20_BoundedBackoff ==
    LET waited(k) == IF k = 1 THEN 500 ELSE 2 * req.waits[k - 1]
    IN  req.pc # "idle" =>
            /\ req.sent <= req.retries /\ req.retries <= max_retries
            /\ Len(req.waits) <= req.sent /\ Len(req.waits) < req.retries
            /\ \A k \in 1..Len(req.waits) : req.waits[k] = waited(k)
            /\ req.pc \in {"request", "done"} =>
                  Len(req.waits) \in {req.sent - 1, req.sent}
            /\ (req.pc = "done" /\ req.error \in {"HTTPStatusError", "HTTPError"}) =>
                  Len(req.waits) = req.sent - 1
            /\ (req.client \in {"asr", "llm"} /\ req.hit_in_wait) =>
                  req.sent = req.sent_at_hit

\* C21: when a stage of process_audio begins, that is when the call sends the first
\* provider request of the stage, the turn of the call is not marked interrupted.
C21_NoStageStartsInterrupted ==
    [][\A c \in Calls :
        LET r == call'[c]
            requests == {"asr_request", "llm_request", "translation_request",
                         "tts_request"}
            begins == /\ r.pc \in requests
                      /\ call[c].pc \notin {r.pc, "asr_sleep", "llm_sleep"}
        IN  (begins /\ Truthy(r.session_id)) =>
                ~is_interrupted(active_turns', objs', r.session_id, r.turn_id)]_vars

\* C22: generate() runs its steps in the order: input check, exact lookup, semantic
\* lookup, model call, output check, cache write; whatever it runs, the input check
\* came first.
C22_StagesInSequence ==
    LET s == gen.steps
        Rank(x) == CASE x = "check_input" -> 1 [] x = "get_exact" -> 2
                     [] x = "get_semantic" -> 3 [] x = "model" -> 4
                     [] x = "check_output" -> 5 [] OTHER -> 6
    IN  /\ \A i, j \in 1..Len(s) : i < j => Rank(s[i]) < Rank(s[j])
        /\ s # <<>> => s[1] = "check_input"

\* C23: what interrupt() does to a state object happens in this order: the flag and the
\* event (reason, timestamp) are set, then the registered task is cancelled, then the
\* cleanup callbacks run one after another in registration order.  The step that sets
\* the flag cancels the task registered then, and the interrupt() that set the flag
\* returns only when every callback registered so far has run.
C23_InterruptOrder ==
    [][/\ \A o \in 1..Len(objs') :
             LET L == SelectSeq(interrupt_log', LAMBDA e : e.obj = o)
                 first == IF Len(L) >= 2 /\ L[2].kind = "cancel" THEN 3 ELSE 2
             IN  /\ objs'[o].interrupted <=> L # <<>>
                 /\ L # <<>> =>
                       /\ L[1].kind = "event" /\ L[1].event = objs'[o].event
                       /\ L[1].event.reason # None /\ L[1].event.timestamp >= 0
                 /\ \A k \in first..Len(L) :
                       /\ L[k].kind = "cleanup" /\ L[k].idx = k - first + 1
                       /\ L[k].idx <= Len(objs'[o].cleanup_callbacks)
                       /\ L[k].what = objs'[o].cleanup_callbacks[L[k].idx]
       /\ \A o \in 1..Len(objs) :
             (~objs[o].interrupted /\ objs'[o].interrupted /\ objs[o].task # None) =>
                 LET L == SelectSeq(interrupt_log', LAMBDA e : e.obj = o)
                 IN  Len(L) >= 2 /\ L[2].kind = "cancel" /\ L[2].what = objs[o].task
       /\ \A i \in Interrupters :
             LET o == intr'[i].obj
                 L == SelectSeq(interrupt_log', LAMBDA e : e.obj = o /\ e.kind = "cleanup")
             IN  (/\ intr[i].pc # "done" /\ intr'[i].pc = "done" /\ o # 0
                  /\ (~objs[o].interrupted \/ intr[i].pc = "cleanup")) =>
                     Len(L) = Len(objs'[o].cleanup_callbacks)]_vars

\* an interrupt() returned after it set the event, cancelled the task and awaited the
\* asynchronous cleanup of its state object
C23_Witness ==
    /\ intr["i1"].pc = "done" /\ intr["i1"].obj # 0
    /\ LET L == SelectSeq(interrupt_log, LAMBDA e : e.obj = intr["i1"].obj)
       IN  /\ Len(L) = 3
           /\ L[1].kind = "event" /\ L[2].kind = "cancel"
           /\ L[3].kind = "cleanup" /\ L[3].what = "async_cleanup"

\* C24: a cleanup callback that raises does not end interrupt(): the interrupt() that
\* set the flag of a state object returns without an error, with every callback
\* registered so far called, those after the failing one included, and with the flag
\* set.
C24_CleanupFailureIsolated ==
    [][\A i \in Interrupters :
        LET o == intr'[i].obj
            ran == SelectSeq(interrupt_log', LAMBDA e : e.obj = o /\ e.kind = "cleanup")
        IN  /\ intr'[i].error = None
            /\ (/\ intr[i].pc # "done" /\ intr'[i].pc = "done" /\ o # 0
                /\ (~objs[o].interrupted \/ intr[i].pc = "cleanup")) =>
                  /\ objs'[o].interrupted
                  /\ \A k \in 1..Len(objs'[o].cleanup_callbacks) :
                        \E j \in 1..Len(ran) :
                            /\ ran[j].idx = k
                            /\ ran[j].what = objs'[o].cleanup_callbacks[k]]_vars

\* an interrupt() returned after a failing callback and the callback registered after it
C24_Witness ==
    /\ intr["i1"].pc = "done" /\ intr["i1"].obj # 0 /\ intr["i1"].error = None
    /\ objs[intr["i1"].obj].interrupted
    /\ LET L == SelectSeq(interrupt_log,
                          LAMBDA e : e.obj = intr["i1"].obj /\ e.kind = "cleanup")
       IN  /\ Len(L) = 2
           /\ L[1].what = "failing_cleanup" /\ L[2].what # "failing_cleanup"

\* C25: while the manager's lock is held, that is while an interrupt() is suspended in
\* an awaited cleanup, no step changes the active-turn map or a state object.
C25_TransitionsSerializedByLock ==
    [][lock # None => UNCHANGED <<active_turns, objs>>]_vars

\* C26: the manager's lock is not held while an interrupt() awaits a cleanup, and no
\* interrupt() waits for the lock while another one awaits a cleanup.
C26_NoLockAcrossAwait ==
    /\ \A i \in Interrupters : intr[i].pc = "cleanup" => lock = None
    /\ \A i, j \in Interrupters :
          ~(intr[i].pc = "waiting" /\ intr[j].pc = "cleanup")

\* C27: a process_audio call in flight whose turn is marked interrupted eventually
\* ends, not as a completed turn with audio, and with its turn out of the active-turn
\* map.
C27_InterruptedTurnEventuallyStops ==
    \A c \in Calls :
        (/\ InFlight(c) /\ Truthy(call[c].session_id)
         /\ is_interrupted(active_turns, objs, call[c].session_id, call[c].turn_id))
        ~> (/\ call[c].pc = "done"
            /\ ~(call[c].outcome = "returned"
                 /\ call[c].result.audio_response # AudioNone)
            /\ <<call[c].session_id, call[c].turn_id>> \notin DOMAIN active_turns)

\* C28: an entry that a lookup of the text cache returns, exact or semantic, was
\* written under the level the lookup is made under.
C28_NoHitAcrossLevels ==
    (cache_op.op \in {"get_exact", "get_semantic"} /\ cache_op.result # <<>>) =>
        cache_op.result[1].optimization_level = cache_op.level

\* the positions of ZRevRange(query_index, SemanticWindow), 1 the most recent, whose
\* member is at least op.threshold similar to the normalized query of the lookup op
SemCandidates(op) ==
    LET recent == ZRevRange(query_index, SemanticWindow)
    IN  {i \in DOMAIN recent :
            FracGe(CalculateSimilarity(NormalizeQuery(op.query), recent[i]), op.threshold)}

\* the member of the highest-scoring candidate, the most recent one on a tie
SemBest(op) ==
    LET recent == ZRevRange(query_index, SemanticWindow)
        score(i) == CalculateSimilarity(NormalizeQuery(op.query), recent[i])
        i == CHOOSE a \in SemCandidates(op) : \A b \in SemCandidates(op) :
                 \/ FracGt(score(a), score(b))
                 \/ (FracGe(score(a), score(b)) /\ a <= b)
    IN  recent[i]

C30_DurableMirrorsBuffer ==
    (enable_persistence /\ Len(recorded) <= LocalEntriesCap) =>
        /\ Cardinality(DOMAIN cost_redis.hashes) = Len(recorded)
        /\ \A s \in CostSessions :
              Len(PersistedEntries(cost_redis, s)) = Len(SessionEntries(local_entries, s))
        /\ summary.session_id # None =>
              /\ summary.raised = None
              /\ summary.result = CostSummary(SessionEntries(local_entries, summary.session_id))

C32_GeneratedIdIsFresh ==
    [][\A s \in Sessions, now \in 0..MaxClock :
          (/\ Len(objs') = Len(objs) + 1
           /\ <<s, GenTurnId(s, now)>> \in DOMAIN active_turns'
           /\ active_turns'[<<s, GenTurnId(s, now)>>] = Len(objs'))
          => <<s, GenTurnId(s, now)>> \notin DOMAIN active_turns]_vars

\* C33: a turn whose level is absent or is not one of the five level names runs
\* every stage under the balanced profile: retrieval asks for balanced's top-K, the
\* model call uses balanced's temperature and output ceiling, and the text and
\* audio cache entries get balanced's ttls.
C33_AbsentOrUnknownIsBalanced ==
    (prof.op = "turn" /\ prof.level \notin OptimizationLevels) =>
        LET balanced == OPTIMIZATION_CONFIGS["balanced"]
        IN  /\ prof.rag_service => prof.rag_top_k = <<balanced.rag_top_k>>
            /\ prof.opt_level = "balanced"
            /\ prof.temperature = balanced.llm_temperature
            /\ prof.max_tokens = GenerateSettings("balanced", prof.max_output_tokens).max_tokens
            /\ prof.llm_ttl = GetCacheTtl("balanced")
            /\ prof.tts_raised = None
            /\ prof.tts_ttl = TtlForLevel("balanced")

\* C34: a process_audio call that registered its turn and has not finished yet still
\* has its (session, turn id) in the active-turn map, whatever other calls under
\* the same pair have done.
C34_RunningTurnStaysActive ==
    \A c \in Calls :
        (InFlight(c) /\ call[c].tracked) =>
            <<call[c].session_id, call[c].turn_id>> \in DOMAIN active_turns

\* C35: a turn that is marked interrupted and stays in the active-turn map over a
\* step is still marked interrupted after it.
C35_InterruptedIsMonotone ==
    [][\A k \in DOMAIN active_turns :
          (objs[active_turns[k]].interrupted /\ k \in DOMAIN active_turns')
          => objs'[active_turns'[k]].interrupted]_vars

\* the cleanup calls made for state object o so far, and the interrupts that marked it
CleanupsRun(o) == SelectSeq(interrupt_log, LAMBDA e : e.obj = o /\ e.kind = "cleanup")
EventsSet(o) == SelectSeq(interrupt_log, LAMBDA e : e.obj = o /\ e.kind = "event")

FallbackTexts ==
    ({check_input(q).safe_response : q \in Queries}
     \cup {check_output(t).safe_response : t \in ModelOutputs}) \ {NoText}

\* an entry generate() may have cached: flagged safe, a text that passes the output
\* check and is no fallback text
CacheableEntry(entry) ==
    /\ entry.guardrail_safe
    /\ check_output(entry.response_text).passed
    /\ entry.response_text \notin FallbackTexts

\* C37: with generate() as the only writer, every entry of the text cache is flagged
\* safe, was cached for a query that passes the input check, holds a text that
\* passes the output check and is no fallback text; and a response generate()
\* returns from the cache is reported safe.
C37_OnlyCheckedResponsesCached ==
    /\ \A k \in DOMAIN exact_store :
          /\ CacheableEntry(DecodeLLM(exact_store[k].value))
          /\ check_input(k.content).passed
    /\ \A k \in DOMAIN semantic_store :
          /\ CacheableEntry(DecodeLLM(semantic_store[k].value))
          /\ check_input(k).passed
    /\ gen.source \in {"exact", "semantic"} => gen.safe

\* generate() has cached a model answer and answered a later query from the cache
C37_Witness ==
    /\ gen.source \in {"exact", "semantic"}
    /\ DOMAIN exact_store # {}

\* C38: whenever synthesize() writes an entry of the TTS cache, the provider call
\* that produced the audio was made with the voice id that is part of the entry's
\* key.
C38_CachedAudioIsOfKeyVoice ==
    [][\A k \in DOMAIN tts_store' :
          (k \notin DOMAIN tts_store \/ tts_store'[k] # tts_store[k]) =>
              /\ syn'.last.calls # <<>>
              /\ syn'.last.calls[Len(syn'.last.calls)].voice_id = k.voice_id]_vars

\* C39: generate() records an LLM cost entry exactly when the model provider was
\* called and returned a response: not on a cache hit, not on an input block, and
\* also when the output check then blocks the model's response.
C39_CostRecordedIffModelAnswered ==
    gen.cost_tracked <=> (gen.model_called /\ ~gen.raised)

OutcomeTurns(m) == m.successful_turns + m.failed_turns + m.interrupted_turns

\* process_audio call c, made with a session id, ends in this step
EndsWithSession(c) ==
    call[c].pc # "done" /\ call'[c].pc = "done" /\ Truthy(call'[c].session_id)

====
